---------------------------- MODULE Spec2Model ----------------------------
(***************************************************************************)
(* State-machine model of the lock-free core of the market-data feed       *)
(* handler: the SPSC CircularBuffer, the MemoryPool free list and the      *)
(* MPMCQueue over its node pool.  Every atomic load, store and             *)
(* compare-exchange of the C++ source is one action; the interleavings of  *)
(* these actions are the sequentially consistent executions of the code.   *)
(* Each component has its own specification; while one component runs the  *)
(* others stay "absent" (not constructed).                                 *)
(***************************************************************************)
EXTENDS Integers, Sequences, FiniteSets, TLC

VARIABLES
    \* ---- CircularBuffer (circular_buffer.hpp) ----
    ring_mode,        \* "absent" | "seq" (one call at a time) | "conc"
    write_index_,     \* std::atomic<size_t> write_index_
    read_index_,      \* std::atomic<size_t> read_index_
    buffer_,          \* std::array<T, Capacity> buffer_
    ring_pc,          \* position of the producer, the consumer, the observer
    current_write,    \* try_push local
    next_write,       \* try_push local
    push_item,        \* try_push argument
    current_read,     \* try_pop local
    pop_item,         \* try_pop out-parameter
    size_write,       \* size() local
    size_ret,         \* last value returned by size(), -1 before the first
    pushed,           \* history: values accepted by try_push, in order
    popped,           \* history: values returned by try_pop, in order
    push_calls,       \* history: number of try_push calls started
    ring_last,        \* history: last completed call, its result, items held
    peek_item,        \* try_peek out-parameter
    peeked,           \* history: value of the last successful try_peek since
                      \* the last successful try_pop, Unwritten if none
    ring_resets,      \* history: number of reset() calls
    low_watermark_,   \* std::size_t low_watermark_
    high_watermark_,  \* std::size_t high_watermark_
    \* ---- MemoryPool (memory_pool.hpp) ----
    pool_mode,        \* "absent" | "seq" (one call at a time) | "conc"
    pool_free_list_,  \* std::atomic<FreeNode*> free_list_
    slot_next,        \* FreeNode::next stored in the first bytes of each slot
    pool_pc,          \* position of each thread inside allocate / deallocate
    pool_node,        \* pop_free_list / push_free_list local: node
    pool_next,        \* pop_free_list local: next
    pool_old_head,    \* push_free_list local: old_head
    pool_held,        \* slots each thread holds (allocated, not yet returned)
    pool_sizeof,      \* sizeof(T)
    pool_raw,         \* address malloc / mmap returned
    use_huge_pages_,  \* bool use_huge_pages_
    memory_,          \* void* memory_ (address of slot 0)
    total_size_,      \* std::size_t total_size_
    pool_last,        \* history: last completed call and whether it succeeded
    \* ---- MPMCQueue (mpmc_queue.hpp) ----
    q_mode,           \* "absent" | "seq" (one call at a time) | "conc" |
                      \* "live" | "consume" | "size" (see QMayStart)
    q_seed,           \* value free_list_ held when the constructor body began
    q_crashed,        \* the constructor dereferenced a null pointer
    head_,            \* std::atomic<Node*> head_
    tail_,            \* std::atomic<Node*> tail_
    free_list_,       \* std::atomic<Node*> free_list_
    node_next,        \* Node::next of each node of node_pool_
    node_data,        \* Node::data of each node of node_pool_
    q_pc,             \* position of each thread inside try_enqueue / try_dequeue
    q_node,           \* local: node (try_enqueue, allocate_node)
    q_head,           \* local: head (try_dequeue), node (reclaim_node)
    q_tail,           \* local: tail
    q_next,           \* local: next
    q_old_head,       \* local: old_head (reclaim_node)
    q_item,           \* try_enqueue argument / try_dequeue out-parameter
    enq_calls,        \* history: try_enqueue calls started by each producer
    enq_hist,         \* history: items linked by a successful try_enqueue
    deq_hist,         \* history: items taken by a successful head exchange
    deq_by,           \* history: the consumer that took each item
    q_last,           \* history: last completed call, its result, items queued
    q_bulk_max,       \* try_dequeue_bulk argument max_count (NULL: no bulk call)
    q_bulk_count,     \* try_dequeue_bulk local count
    q_items,          \* try_dequeue_bulk argument items (the caller's array)
    q_bulk_last,      \* history: last completed try_dequeue_bulk call
    q_count,          \* size() local: count
    q_size_ret,       \* last value returned by size(), NULL before the first
    \* ---- LatencyHistogram (latency_tracker.hpp) ----
    hist_mode,        \* "absent" | "seq" (one call at a time) | "conc" |
                      \* "edges" (one call at a time, samples at the
                      \* bucket boundaries)
    buckets_,         \* std::array<std::atomic<uint64_t>, NUM_BUCKETS> buckets_
    total_count_,     \* std::atomic<uint64_t> total_count_
    min_,             \* std::atomic<uint64_t> min_
    max_,             \* std::atomic<uint64_t> max_
    sum_,             \* std::atomic<uint64_t> sum_
    hist_pc,          \* position of each thread inside record
    latency_ns,       \* record argument latency_ns
    hist_current,     \* update_min / update_max local: current
    hist_calls,       \* history: record calls started since construction
    recorded,         \* history: samples recorded since the last reset
    \* ---- Timestamp (timestamp.hpp) ----
    ts_mode,          \* "absent" | "on"
    ts_has_counter,   \* the build is for x86-64 (rdtscp reads the counter)
    tsc_frequency_,   \* static inline uint64_t tsc_frequency_
    ts_calibrated,    \* history: initialize() has returned
    ts_last,          \* history: last conversion, its argument and result
    \* ---- ThreadUtils::parse_cpu_list (thread_utils.hpp) ----
    cpu_mode,         \* "absent" | "on"
    cpu_line,         \* parse_cpu_list argument str
    cpu_pc,           \* "idle" | "returned" | "overflowed"
    cpus,             \* parse_cpu_list local and result: cpus
    \* ---- ConfiguredThread (thread_utils.hpp) ----
    thr_mode,         \* "absent" | "on"
    thr_alive,        \* the ConfiguredThread objects that exist
    thread_,          \* std::thread thread_ of each object (the worker it
                      \* can join, NoThread if not joinable)
    worker,           \* each worker: "unstarted" | "running" | "joined"
    thr_config,       \* history: results of the pinning, naming and
                      \* priority steps for each worker
    thr_terminated,   \* std::terminate() has been called
    \* ---- ThreadUtils: affinity and priority (thread_utils.hpp) ----
    sched_mode,       \* "absent" | "on"
    is_linux,         \* the build defines __linux__
    num_cpus,         \* sysconf(_SC_NPROCESSORS_ONLN)
    cpu_affinity,     \* affinity mask of each thread, kept by the OS
    sched_param,      \* policy and priority of each thread, kept by the OS
    sched_last,       \* history: the last call, whether it called the OS,
                      \* what the OS and the call returned
    \* ---- reference driver (src/main.cpp) ----
    drv_mode,         \* "absent" | "on"
    g_shutdown,       \* std::atomic<bool> g_shutdown
    drv_pc,           \* position of the producer, the consumer and main
    sequence,         \* producer_thread local
    processed,        \* consumer_thread local
    last_sequence,    \* consumer_thread local
    messages_received,  \* g_metrics.messages_received
    messages_processed, \* g_metrics.messages_processed
    sequence_gaps,    \* g_metrics.sequence_gaps
    at_shutdown       \* history: items held, pushed and popped when
                      \* g_shutdown was set, <<>> before

ringMore == <<peek_item, peeked, ring_resets>>

ringMarks == <<low_watermark_, high_watermark_>>

ringVars == <<ring_mode, write_index_, read_index_, buffer_, ring_pc,
              current_write, next_write, push_item, current_read, pop_item,
              size_write, size_ret, pushed, popped, push_calls, ring_last,
              ringMore, ringMarks>>

poolMem == <<pool_sizeof, pool_raw, use_huge_pages_, memory_, total_size_>>

poolVars == <<pool_mode, pool_free_list_, slot_next, pool_pc, pool_node,
              pool_next, pool_old_head, pool_held, poolMem, pool_last>>

qConfig == <<q_mode, q_seed, q_crashed>>

qShared == <<head_, tail_, free_list_, node_next, node_data>>

qLocals == <<q_node, q_head, q_tail, q_next, q_old_head, q_item>>

qHist == <<enq_calls, enq_hist, deq_hist, deq_by, q_last>>

qBulk == <<q_bulk_max, q_bulk_count, q_items, q_bulk_last>>

qSize == <<q_count, q_size_ret>>

qVars == <<qConfig, qShared, q_pc, qLocals, qHist, qBulk, qSize>>

histShared == <<buckets_, total_count_, min_, max_, sum_>>

histVars == <<hist_mode, histShared, hist_pc, latency_ns, hist_current,
              hist_calls, recorded>>

tsVars == <<ts_mode, ts_has_counter, tsc_frequency_, ts_calibrated, ts_last>>

cpuVars == <<cpu_mode, cpu_line, cpu_pc, cpus>>

thrVars == <<thr_mode, thr_alive, thread_, worker, thr_config, thr_terminated>>

schedVars == <<sched_mode, is_linux, num_cpus, cpu_affinity, sched_param,
               sched_last>>

utilVars == <<tsVars, cpuVars, thrVars, schedVars>>

drvVars == <<drv_mode, g_shutdown, drv_pc, sequence, processed, last_sequence,
             messages_received, messages_processed, sequence_gaps,
             at_shutdown>>

vars == <<ringVars, poolVars, qVars, histVars, utilVars, drvVars>>

notRing == <<poolVars, qVars, histVars, utilVars, drvVars>>

notPool == <<ringVars, qVars, histVars, utilVars, drvVars>>

notQueue == <<ringVars, poolVars, histVars, utilVars, drvVars>>

notHist == <<ringVars, poolVars, qVars, utilVars, drvVars>>

notUtil == <<ringVars, poolVars, qVars, histVars, drvVars>>

\* The driver runs on the CircularBuffer.
notDriver == <<poolVars, qVars, histVars, utilVars>>

-----------------------------------------------------------------------------
(* Bounds of the model *)

\* Capacity is 2^CapacityLog2 (static_assert: power of two).
CapacityLog2 == 2

\* try_push calls made by the producer in one run.
MaxPushCalls == 9

\* Slots of the MemoryPool (template parameter NumSlots).
NumSlots == 2

\* Threads sharing the MemoryPool.
NumPoolThreads == 2

\* Addresses malloc may return: RawStride * k for k = 1 .. MaxRawUnits.
RawStride == 24

MaxRawUnits == 3

\* Nodes of the MPMCQueue pool (template parameter MaxNodes).
MaxNodes == 3

\* Producer and consumer threads of the MPMCQueue.
NumProducers == 2

NumConsumers == 1

\* try_enqueue calls made by each producer in one run.
MaxEnqueues == 2

\* Successful try_dequeue calls made by each consumer in one run.
MaxDequeues == 4

\* Largest max_count passed to try_dequeue_bulk; the caller's array has one
\* element more.
MaxBulk == 3

\* reset() calls made on the CircularBuffer.
MaxResets == 1

\* Threads recording into the LatencyHistogram.
NumHistThreads == 2

\* record calls made on the histogram.
MaxRecords == 3

\* Percentiles k / PercentileSteps, k = 0 .. PercentileSteps, are queried.
PercentileSteps == 8

\* Tokens in a line given to parse_cpu_list.
MaxTokens == 3

\* try_enqueue calls of each producer in the runs with two dequeuing threads.
MaxConsumeEnqueues == 1

\* Largest number of online CPUs.
MaxCpus == 2

\* Events the driver's producer builds in one run.
MaxEvents == 4

\* ConfiguredThread objects that can exist at a time.
NumThreadObjects == 3

\* Workers launched in one run.
NumWorkers == 2

-----------------------------------------------------------------------------
(* Helpers *)

RECURSIVE Pow2(_)
Pow2(n) == IF n = 0 THEN 1 ELSE 2 * Pow2(n - 1)

\* Bitwise AND of two naturals.
RECURSIVE BitAnd(_, _)
BitAnd(a, b) ==
    IF a = 0 \/ b = 0 THEN 0
    ELSE (a % 2) * (b % 2) + 2 * BitAnd(a \div 2, b \div 2)

\* nullptr
NULL == -1

Min(a, b) == IF a < b THEN a ELSE b

IsPrefix(s, t) ==
    /\ Len(s) <= Len(t)
    /\ \A k \in 1..Len(s) : s[k] = t[k]

-----------------------------------------------------------------------------
(* CircularBuffer<T, Capacity> *)

Capacity == Pow2(CapacityLog2)

RingThreads == {"producer", "consumer", "observer"}

\* A slot never written holds no pushed value (pushed values are >= 1).
Unwritten == 0

incrementBy2(index) == BitAnd(index + 2, Capacity - 1)

\* increment(): (index + 1) & (Capacity - 1)
increment(index) == BitAnd(index + 1, Capacity - 1)

sizeSwapped(write, read) ==
    IF write >= read THEN write - read ELSE Capacity + read - write

\* size(): (write >= read) ? (write - read) : (Capacity - read + write)
sizeOf(write, read) ==
    IF write >= read THEN write - read ELSE Capacity - read + write

\* Constructor lines 30-35: both indices 0; high_watermark_ and
\* low_watermark_ are Capacity * 0.9 and Capacity * 0.1 converted to size_t,
\* which truncates (for a power of two the double product has the same
\* integer part as 9 * Capacity / 10 and Capacity / 10).
RingCtor ==
    /\ write_index_ = 0
    /\ read_index_ = 0
    /\ buffer_ = [i \in 0..(Capacity - 1) |-> Unwritten]
    /\ ring_pc = [t \in RingThreads |-> "idle"]
    /\ current_write = 0
    /\ next_write = 0
    /\ push_item = 0
    /\ current_read = 0
    /\ pop_item = 0
    /\ size_write = 0
    /\ size_ret = -1
    /\ pushed = <<>>
    /\ popped = <<>>
    /\ push_calls = 0
    /\ ring_last = [op |-> "none", ret |-> FALSE, held |-> 0]
    /\ peek_item = 0
    /\ peeked = Unwritten
    /\ ring_resets = 0
    /\ high_watermark_ = (Capacity * 9) \div 10
    /\ low_watermark_ = Capacity \div 10

RingAbsent ==
    /\ ring_mode = "absent"
    /\ RingCtor

\* Items in the ring: accepted pushes minus completed pops.
RingHeld == Len(pushed) - Len(popped)

\* A thread may start a call: always when the ring is shared by concurrent
\* threads, only when no other call is in progress in single-threaded use.
RingMayStart(t) ==
    /\ ring_pc[t] = "idle"
    /\ \/ ring_mode = "conc"
       \/ ring_mode = "seq" /\ \A u \in RingThreads : ring_pc[u] = "idle"

RingGoto(t, label) == ring_pc' = [ring_pc EXCEPT ![t] = label]

RingReturn(t) == ring_pc' = [ring_pc EXCEPT ![t] = "idle"]

\* try_push line 50-51: load write_index_, compute next_write.
try_push_load_write ==
    /\ RingMayStart("producer")
    /\ push_calls < MaxPushCalls
    /\ push_calls' = push_calls + 1
    /\ push_item' = push_calls + 1
    /\ current_write' = write_index_
    /\ next_write' = increment(write_index_)
    /\ RingGoto("producer", "push_check_full")
    /\ UNCHANGED <<ring_mode, write_index_, read_index_, buffer_, current_read,
                   pop_item, size_write, size_ret, pushed, popped, ring_last>>
    /\ UNCHANGED <<ringMore, ringMarks, notRing>>

pushFullNever(nw, r) == FALSE

\* try_push line 54: the full test.
pushFull(nw, r) == nw = r

\* try_push line 54-56: load read_index_; full => return false.
try_push_check_full ==
    /\ ring_pc["producer"] = "push_check_full"
    /\ IF pushFull(next_write, read_index_)
       THEN /\ RingReturn("producer")
            /\ ring_last' = [op |-> "push", ret |-> FALSE, held |-> RingHeld]
       ELSE /\ RingGoto("producer", "push_write_slot")
            /\ UNCHANGED ring_last
    /\ UNCHANGED <<ring_mode, write_index_, read_index_, buffer_, current_write,
                   next_write, push_item, current_read, pop_item, size_write,
                   size_ret, pushed, popped, push_calls>>
    /\ UNCHANGED <<ringMore, ringMarks, notRing>>

\* try_push line 59: buffer_[current_write] = item.
try_push_write_slot ==
    /\ ring_pc["producer"] = "push_write_slot"
    /\ buffer_' = [buffer_ EXCEPT ![current_write] = push_item]
    /\ RingGoto("producer", "push_publish")
    /\ UNCHANGED <<ring_mode, write_index_, read_index_, current_write,
                   next_write, push_item, current_read, pop_item, size_write,
                   size_ret, pushed, popped, push_calls, ring_last>>
    /\ UNCHANGED <<ringMore, ringMarks, notRing>>

\* try_push line 62-64: store write_index_ (release); return true.
try_push_publish ==
    /\ ring_pc["producer"] = "push_publish"
    /\ write_index_' = next_write
    /\ pushed' = Append(pushed, push_item)
    /\ RingReturn("producer")
    /\ ring_last' = [op |-> "push", ret |-> TRUE, held |-> RingHeld]
    /\ UNCHANGED <<ring_mode, read_index_, buffer_, current_write, next_write,
                   push_item, current_read, pop_item, size_write, size_ret,
                   popped, push_calls>>
    /\ UNCHANGED <<ringMore, ringMarks, notRing>>

\* try_pop line 73: load read_index_.
try_pop_load_read ==
    /\ RingMayStart("consumer")
    /\ current_read' = read_index_
    /\ RingGoto("consumer", "pop_check_empty")
    /\ UNCHANGED <<ring_mode, write_index_, read_index_, buffer_, current_write,
                   next_write, push_item, pop_item, size_write, size_ret,
                   pushed, popped, push_calls, ring_last>>
    /\ UNCHANGED <<ringMore, ringMarks, notRing>>

popEmptyStale(cr, w) == cr = increment(w)

\* try_pop line 76: the empty test.
popEmpty(cr, w) == cr = w

\* try_pop line 76-78: load write_index_ (acquire); empty => return false.
try_pop_check_empty ==
    /\ ring_pc["consumer"] = "pop_check_empty"
    /\ IF popEmpty(current_read, write_index_)
       THEN /\ RingReturn("consumer")
            /\ ring_last' = [op |-> "pop", ret |-> FALSE, held |-> RingHeld]
       ELSE /\ RingGoto("consumer", "pop_read_slot")
            /\ UNCHANGED ring_last
    /\ UNCHANGED <<ring_mode, write_index_, read_index_, buffer_, current_write,
                   next_write, push_item, current_read, pop_item, size_write,
                   size_ret, pushed, popped, push_calls>>
    /\ UNCHANGED <<ringMore, ringMarks, notRing>>

\* try_pop line 81: item = buffer_[current_read].
try_pop_read_slot ==
    /\ ring_pc["consumer"] = "pop_read_slot"
    /\ pop_item' = buffer_[current_read]
    /\ RingGoto("consumer", "pop_publish")
    /\ UNCHANGED <<ring_mode, write_index_, read_index_, buffer_, current_write,
                   next_write, push_item, current_read, size_write, size_ret,
                   pushed, popped, push_calls, ring_last>>
    /\ UNCHANGED <<ringMore, ringMarks, notRing>>

\* try_pop line 84-86: store read_index_ (release); return true.
try_pop_publish ==
    /\ ring_pc["consumer"] = "pop_publish"
    /\ read_index_' = increment(current_read)
    /\ popped' = Append(popped, pop_item)
    /\ RingReturn("consumer")
    /\ ring_last' = [op |-> "pop", ret |-> TRUE, held |-> RingHeld]
    /\ peeked' = Unwritten
    /\ UNCHANGED <<ring_mode, write_index_, buffer_, current_write, next_write,
                   push_item, current_read, pop_item, size_write, size_ret,
                   pushed, push_calls, peek_item, ring_resets>>
    /\ UNCHANGED <<ringMarks, notRing>>

\* size() line 111: load write_index_.
size_load_write ==
    /\ RingMayStart("observer")
    /\ size_write' = write_index_
    /\ RingGoto("observer", "size_load_read")
    /\ UNCHANGED <<ring_mode, write_index_, read_index_, buffer_, current_write,
                   next_write, push_item, current_read, pop_item, size_ret,
                   pushed, popped, push_calls, ring_last>>
    /\ UNCHANGED <<ringMore, ringMarks, notRing>>

\* size() line 112-113: load read_index_; return the difference.
size_load_read ==
    /\ ring_pc["observer"] = "size_load_read"
    /\ size_ret' = sizeOf(size_write, read_index_)
    /\ RingReturn("observer")
    /\ UNCHANGED <<ring_mode, write_index_, read_index_, buffer_, current_write,
                   next_write, push_item, current_read, pop_item, size_write,
                   pushed, popped, push_calls, ring_last>>
    /\ UNCHANGED <<ringMore, ringMarks, notRing>>

\* try_peek line 95: load read_index_.
try_peek_load_read ==
    /\ RingMayStart("consumer")
    /\ current_read' = read_index_
    /\ RingGoto("consumer", "peek_check_empty")
    /\ UNCHANGED <<ring_mode, write_index_, read_index_, buffer_, current_write,
                   next_write, push_item, pop_item, size_write, size_ret,
                   pushed, popped, push_calls, ring_last, ringMore>>
    /\ UNCHANGED <<ringMarks, notRing>>

\* try_peek line 98: the empty test.
peekEmpty(cr, w) == cr = w

\* try_peek line 98-100: load write_index_ (acquire); empty => return false.
try_peek_check_empty ==
    /\ ring_pc["consumer"] = "peek_check_empty"
    /\ IF peekEmpty(current_read, write_index_)
       THEN /\ RingReturn("consumer")
            /\ ring_last' = [op |-> "peek", ret |-> FALSE, held |-> RingHeld]
       ELSE /\ RingGoto("consumer", "peek_read_slot")
            /\ UNCHANGED ring_last
    /\ UNCHANGED <<ring_mode, write_index_, read_index_, buffer_, current_write,
                   next_write, push_item, current_read, pop_item, size_write,
                   size_ret, pushed, popped, push_calls, ringMore>>
    /\ UNCHANGED <<ringMarks, notRing>>

\* try_peek reading the slot and then advancing read_index_ as try_pop does.
try_peek_read_advance ==
    /\ ring_pc["consumer"] = "peek_read_slot"
    /\ peek_item' = buffer_[current_read]
    /\ peeked' = buffer_[current_read]
    /\ read_index_' = increment(current_read)
    /\ RingReturn("consumer")
    /\ ring_last' = [op |-> "peek", ret |-> TRUE, held |-> RingHeld]
    /\ UNCHANGED <<ring_mode, write_index_, buffer_, current_write, next_write,
                   push_item, current_read, pop_item, size_write, size_ret,
                   pushed, popped, push_calls, ring_resets>>
    /\ UNCHANGED <<ringMarks, notRing>>

\* try_peek line 103-104: item = buffer_[current_read]; return true.
try_peek_read_slot ==
    /\ ring_pc["consumer"] = "peek_read_slot"
    /\ peek_item' = buffer_[current_read]
    /\ peeked' = buffer_[current_read]
    /\ RingReturn("consumer")
    /\ ring_last' = [op |-> "peek", ret |-> TRUE, held |-> RingHeld]
    /\ UNCHANGED <<ring_mode, write_index_, read_index_, buffer_, current_write,
                   next_write, push_item, current_read, pop_item, size_write,
                   size_ret, pushed, popped, push_calls, ring_resets>>
    /\ UNCHANGED <<ringMarks, notRing>>

\* empty() lines 119-122.
emptyOf(read, write) == read = write

\* reset() storing 0 into write_index_ only.
resetWriteOnly ==
    /\ \A t \in RingThreads : ring_pc[t] = "idle"
    /\ ring_resets < MaxResets
    /\ write_index_' = 0
    /\ pushed' = <<>>
    /\ popped' = <<>>
    /\ peeked' = Unwritten
    /\ ring_resets' = ring_resets + 1
    /\ ring_last' = [op |-> "reset", ret |-> TRUE, held |-> 0]
    /\ UNCHANGED <<ring_mode, read_index_, buffer_, ring_pc, current_write,
                   next_write, push_item, current_read, pop_item, size_write,
                   size_ret, push_calls, peek_item>>
    /\ UNCHANGED <<ringMarks, notRing>>

\* reset() lines 165-168, called while no other call is in progress: both
\* indices are set to 0; the histories start again.
reset_ring ==
    /\ \A t \in RingThreads : ring_pc[t] = "idle"
    /\ ring_resets < MaxResets
    /\ write_index_' = 0
    /\ read_index_' = 0
    /\ pushed' = <<>>
    /\ popped' = <<>>
    /\ peeked' = Unwritten
    /\ ring_resets' = ring_resets + 1
    /\ ring_last' = [op |-> "reset", ret |-> TRUE, held |-> 0]
    /\ UNCHANGED <<ring_mode, buffer_, ring_pc, current_write, next_write,
                   push_item, current_read, pop_item, size_write, size_ret,
                   push_calls, peek_item>>
    /\ UNCHANGED <<ringMarks, notRing>>

\* full() comparing write + 1 with the read index, without wrapping.
fullOfNoWrap(write, read) == write + 1 = read

\* full() lines 127-131.
fullOf(write, read) == increment(write) = read

\* Arguments passed to set_watermarks (size_t values, any of them).
WatermarkArgs == {0, Capacity - 1, Capacity + 1}

\* set_watermarks(low, high) lines 157-160: both values are stored as given.
set_watermarks(low, high) ==
    /\ RingMayStart("observer")
    /\ low_watermark_' = low
    /\ high_watermark_' = high
    /\ ring_last' = [op |-> "set_watermarks", ret |-> TRUE, held |-> RingHeld]
    /\ UNCHANGED <<ring_mode, write_index_, read_index_, buffer_, ring_pc,
                   current_write, next_write, push_item, current_read,
                   pop_item, size_write, size_ret, pushed, popped, push_calls>>
    /\ UNCHANGED <<ringMore, notRing>>

RingNext ==
    \/ try_push_load_write
    \/ try_push_check_full
    \/ try_push_write_slot
    \/ try_push_publish
    \/ try_pop_load_read
    \/ try_pop_check_empty
    \/ try_pop_read_slot
    \/ try_pop_publish
    \/ size_load_write
    \/ size_load_read

\* The consumer also peeks.
RingPeekNext ==
    \/ RingNext
    \/ try_peek_load_read
    \/ try_peek_check_empty
    \/ try_peek_read_slot

\* The single thread also resets.
RingResetNext ==
    \/ RingNext
    \/ reset_ring

\* reset() is called whenever no call is in progress.
RingQuiescentNext ==
    \/ RingNext
    \/ reset_ring

\* The watermarks are set between the calls.
RingMarksNext ==
    \/ RingNext
    \/ \E low \in WatermarkArgs, high \in WatermarkArgs :
          set_watermarks(low, high)

\* One producer thread, one consumer thread and a monitoring thread.
RingInit ==
    /\ ring_mode = "conc"
    /\ RingCtor

\* All calls made by one thread, one after the other.
RingSeqInit ==
    /\ ring_mode = "seq"
    /\ RingCtor


-----------------------------------------------------------------------------
(* MemoryPool<T, NumSlots> *)

Slots == 0..(NumSlots - 1)

PoolThreads == 1..NumPoolThreads

\* common.hpp line 14.
CACHE_LINE_SIZE == 64

\* allocate_huge_pages() line 132.
HUGE_PAGE_SIZE == 2097152

\* mmap's failure result, (void*) -1.
MAP_FAILED == -1

\* Object sizes sizeof(T) the pool is instantiated with.
SizesOfT == {4, CACHE_LINE_SIZE + 1}

\* Results of std::malloc (a failed malloc aborts the process, line 154).
RawAddrs == {RawStride * k : k \in 1..MaxRawUnits}

\* Results of mmap with MAP_HUGETLB: a huge-page-aligned address, or failure.
MmapResults == {HUGE_PAGE_SIZE, MAP_FAILED}

RoundUp(n, unit) == ((n + unit - 1) \div unit) * unit

\* SLOT_SIZE lines 30-31.
SLOT_SIZE(sizeofT) == RoundUp(sizeofT, CACHE_LINE_SIZE)

\* A pool that uses the malloc result as it is.
AlignNot(addr) == addr

\* allocate_normal() lines 158-160: (addr + CACHE_LINE_SIZE - 1) &
\* ~(CACHE_LINE_SIZE - 1); the mask clears the bits below the cache line size.
AlignToCacheLine(addr) ==
    (addr + CACHE_LINE_SIZE - 1) - ((addr + CACHE_LINE_SIZE - 1) % CACHE_LINE_SIZE)

\* get_slot(index) lines 166-169.
get_slot(index) == memory_ + index * SLOT_SIZE(pool_sizeof)

\* Constructor lines 33-49.  allocate_huge_pages() (lines 128-144) maps
\* NumSlots * SLOT_SIZE rounded up to huge pages and falls back to
\* allocate_normal() (lines 149-161) when mmap fails.  The loop of lines
\* 45-48 pushes slot i for i = 0 .. NumSlots-1 on an empty list, so slot i
\* links to slot i-1 and the last slot is on top.
PoolCtor(sizeofT, use_huge_pages, mmap_result, malloc_result) ==
    LET huge == use_huge_pages /\ mmap_result # MAP_FAILED
    IN  /\ pool_sizeof = sizeofT
        /\ use_huge_pages_ = huge
        /\ pool_raw = (IF huge THEN mmap_result ELSE malloc_result)
        /\ memory_ = (IF huge THEN mmap_result
                      ELSE AlignToCacheLine(malloc_result))
        /\ total_size_ = (IF huge
                          THEN RoundUp(NumSlots * SLOT_SIZE(sizeofT),
                                       HUGE_PAGE_SIZE)
                          ELSE NumSlots * SLOT_SIZE(sizeofT) + CACHE_LINE_SIZE)
        /\ pool_free_list_ = (IF NumSlots = 0 THEN NULL ELSE NumSlots - 1)
        /\ slot_next = [i \in Slots |-> IF i = 0 THEN NULL ELSE i - 1]
        /\ pool_pc = [t \in PoolThreads |-> "idle"]
        /\ pool_node = [t \in PoolThreads |-> NULL]
        /\ pool_next = [t \in PoolThreads |-> NULL]
        /\ pool_old_head = [t \in PoolThreads |-> NULL]
        /\ pool_held = [t \in PoolThreads |-> {}]
        /\ pool_last = [op |-> "none", ok |-> FALSE]

\* The constructor's inputs: sizeof(T), the argument use_huge_pages, and the
\* results of mmap and malloc.
PoolCtorAny ==
    \E sizeofT \in SizesOfT, use_huge_pages \in BOOLEAN,
       mmap_result \in MmapResults, malloc_result \in RawAddrs :
        PoolCtor(sizeofT, use_huge_pages, mmap_result, malloc_result)

PoolAbsent ==
    /\ pool_mode = "absent"
    /\ PoolCtor(CACHE_LINE_SIZE, FALSE, MAP_FAILED, CACHE_LINE_SIZE)

PoolMayStart(t) ==
    /\ pool_pc[t] = "idle"
    /\ \/ pool_mode = "conc"
       \/ pool_mode = "seq" /\ \A u \in PoolThreads : pool_pc[u] = "idle"

PoolGoto(t, label) == pool_pc' = [pool_pc EXCEPT ![t] = label]

\* Return to the caller: the call's locals cease to exist.
PoolReturn(t, op, ok) ==
    /\ pool_last' = [op |-> op, ok |-> ok]
    /\ pool_pc' = [pool_pc EXCEPT ![t] = "idle"]
    /\ pool_node' = [pool_node EXCEPT ![t] = NULL]
    /\ pool_next' = [pool_next EXCEPT ![t] = NULL]
    /\ pool_old_head' = [pool_old_head EXCEPT ![t] = NULL]

\* Slots linked from free_list_, following next links (at most NumSlots + 1
\* links are followed, so a cycle ends the walk).
RECURSIVE PoolChainFrom(_, _)
PoolChainFrom(node, fuel) ==
    IF node = NULL \/ fuel = 0 THEN <<>>
    ELSE <<node>> \o PoolChainFrom(slot_next[node], fuel - 1)

PoolFreeChain == PoolChainFrom(pool_free_list_, NumSlots + 1)

PoolFreeSet == {PoolFreeChain[k] : k \in 1..Len(PoolFreeChain)}

PoolHeldSet == UNION {pool_held[t] : t \in PoolThreads}

\* available() lines 96-104: count = 0; node = free_list_.load(); while
\* (node && count < NumSlots) { ++count; node = node->next.load(); }.
RECURSIVE AvailableWalk(_, _)
AvailableWalk(node, count) ==
    IF node # NULL /\ count < NumSlots
    THEN AvailableWalk(slot_next[node], count + 1)
    ELSE count

available == AvailableWalk(pool_free_list_, 0)

\* capacity() lines 109-111.
capacity == NumSlots

PoolIdle == \A t \in PoolThreads : pool_pc[t] = "idle"

\* allocate() line 70, pop_free_list() line 189: node = free_list_.load();
\* an empty list returns nullptr.
allocate_load(t) ==
    /\ PoolMayStart(t)
    /\ IF pool_free_list_ = NULL
       THEN /\ pool_last' = [op |-> "allocate", ok |-> FALSE]
            /\ UNCHANGED <<pool_pc, pool_node>>
       ELSE /\ pool_node' = [pool_node EXCEPT ![t] = pool_free_list_]
            /\ PoolGoto(t, "pop_next")
            /\ UNCHANGED pool_last
    /\ UNCHANGED <<pool_mode, pool_free_list_, slot_next, pool_next,
                   pool_old_head, pool_held>>
    /\ UNCHANGED <<poolMem, notPool>>

\* pop_free_list() line 191: next = node->next.load().  A slot that another
\* thread holds meanwhile stores that thread's object over the link, so the
\* load then yields any value (the stale link included).
pop_next(t) ==
    /\ pool_pc[t] = "pop_next"
    /\ \E v \in Slots \cup {NULL} :
          /\ pool_node[t] \notin PoolHeldSet => v = slot_next[pool_node[t]]
          /\ pool_next' = [pool_next EXCEPT ![t] = v]
    /\ PoolGoto(t, "pop_cas")
    /\ UNCHANGED <<pool_mode, pool_free_list_, slot_next, pool_node,
                   pool_old_head, pool_held, pool_last>>
    /\ UNCHANGED <<poolMem, notPool>>

\* pop_free_list() lines 192-197: compare_exchange_weak(node, next).  On
\* success the slot is returned to the caller of allocate().  On failure
\* (the list head differs, or the weak exchange fails spuriously) node is
\* reloaded and the loop repeats, returning nullptr when the list is empty.
pop_cas(t) ==
    /\ pool_pc[t] = "pop_cas"
    /\ \/ /\ pool_free_list_ = pool_node[t]
          /\ pool_free_list_' = pool_next[t]
          /\ pool_held' = [pool_held EXCEPT ![t] = @ \cup {pool_node[t]}]
          /\ PoolReturn(t, "allocate", TRUE)
       \/ /\ IF pool_free_list_ = NULL
             THEN PoolReturn(t, "allocate", FALSE)
             ELSE /\ pool_node' = [pool_node EXCEPT ![t] = pool_free_list_]
                  /\ PoolGoto(t, "pop_next")
                  /\ UNCHANGED <<pool_next, pool_old_head, pool_last>>
          /\ UNCHANGED <<pool_free_list_, pool_held>>
    /\ UNCHANGED <<pool_mode, slot_next>>
    /\ UNCHANGED <<poolMem, notPool>>

\* deallocate(ptr) lines 81-90 for a slot the caller holds, and
\* push_free_list() line 177: old_head = free_list_.load().
deallocate_load(t) ==
    /\ PoolMayStart(t)
    /\ \E ptr \in pool_held[t] :
          /\ pool_held' = [pool_held EXCEPT ![t] = @ \ {ptr}]
          /\ pool_node' = [pool_node EXCEPT ![t] = ptr]
    /\ pool_old_head' = [pool_old_head EXCEPT ![t] = pool_free_list_]
    /\ PoolGoto(t, "push_store")
    /\ UNCHANGED <<pool_mode, pool_free_list_, slot_next, pool_next,
                   pool_last>>
    /\ UNCHANGED <<poolMem, notPool>>

\* push_free_list() line 179: node->next.store(old_head).
push_store(t) ==
    /\ pool_pc[t] = "push_store"
    /\ slot_next' = [slot_next EXCEPT ![pool_node[t]] = pool_old_head[t]]
    /\ PoolGoto(t, "push_cas")
    /\ UNCHANGED <<pool_mode, pool_free_list_, pool_node, pool_next,
                   pool_old_head, pool_held, pool_last>>
    /\ UNCHANGED <<poolMem, notPool>>

\* push_free_list() lines 180-182: compare_exchange_weak(old_head, node);
\* a failure reloads old_head and repeats the store.
push_cas(t) ==
    /\ pool_pc[t] = "push_cas"
    /\ \/ /\ pool_free_list_ = pool_old_head[t]
          /\ pool_free_list_' = pool_node[t]
          /\ PoolReturn(t, "deallocate", TRUE)
       \/ /\ pool_old_head' = [pool_old_head EXCEPT ![t] = pool_free_list_]
          /\ PoolGoto(t, "push_store")
          /\ UNCHANGED <<pool_free_list_, pool_node, pool_next, pool_last>>
    /\ UNCHANGED <<pool_mode, slot_next, pool_held>>
    /\ UNCHANGED <<poolMem, notPool>>

PoolNext ==
    \E t \in PoolThreads :
        \/ allocate_load(t)
        \/ pop_next(t)
        \/ pop_cas(t)
        \/ deallocate_load(t)
        \/ push_store(t)
        \/ push_cas(t)

\* Several threads share the pool.
PoolInit ==
    /\ pool_mode = "conc"
    /\ PoolCtorAny

\* One thread uses the pool.
PoolSeqInit ==
    /\ pool_mode = "seq"
    /\ PoolCtorAny

-----------------------------------------------------------------------------
(* MPMCQueue<T, MaxNodes> *)
(* ExponentialBackoff only delays the calling thread (pause / yield); it   *)
(* touches no shared state and is not a step of the model.                 *)

Nodes == 0..(MaxNodes - 1)

Producers == 1..NumProducers

Consumers == (NumProducers + 1)..(NumProducers + NumConsumers)

QThreads == Producers \cup Consumers

\* The k-th item a producer enqueues, tagged with the producer's id.
ItemOf(p, k) == 10 * p + k

\* Node::Node(): data{} (line 233).
NoData == 0

\* Indices of the array a caller passes to try_dequeue_bulk.
ItemSlots == 0..MaxBulk

\* An element of the caller's array that try_dequeue_bulk has not written.
Untouched == -1

\* Constructor lines 80-85: node_pool_[i + 1] is pushed on the free list
\* for i = 0 .. MaxNodes - 2.
RECURSIVE CtorPush(_, _, _)
CtorPush(i, fl, nx) ==
    IF i >= MaxNodes - 1 THEN [free_list |-> fl, next |-> nx]
    ELSE CtorPush(i + 1, i + 1, [nx EXCEPT ![i + 1] = fl])

\* Constructor line 73: dummy = allocate_node() pops the free list, which no
\* code has initialised yet: free_list_ holds seed.  All nodes are freshly
\* constructed (next == nullptr), so the pop of a node leaves the list null.
CtorDummy(seed) == seed

\* Constructor lines 71-86.  free_list_ is default-initialised: nullptr where
\* std::atomic value-initialises (C++20), an indeterminate value otherwise
\* (a stale pointer to a pool node, or any other pointer, whose dereference
\* faults like the null one).  With dummy == nullptr line 74 stores through
\* a null pointer and the process faults before head_ is ever set.
MPMCQueueCtor(seed) ==
    LET dummy == CtorDummy(seed)
        fresh == [n \in Nodes |-> NULL]
        pool  == CtorPush(0, NULL, fresh)
    IN  /\ q_seed = seed
        /\ q_crashed = (dummy = NULL)
        /\ head_ = dummy
        /\ tail_ = dummy
        /\ free_list_ = (IF dummy = NULL THEN NULL ELSE pool.free_list)
        /\ node_next = (IF dummy = NULL THEN fresh ELSE pool.next)
        /\ node_data = [n \in Nodes |-> NoData]
        /\ q_pc = [t \in QThreads |-> "idle"]
        /\ q_node = [t \in QThreads |-> NULL]
        /\ q_head = [t \in QThreads |-> NULL]
        /\ q_tail = [t \in QThreads |-> NULL]
        /\ q_next = [t \in QThreads |-> NULL]
        /\ q_old_head = [t \in QThreads |-> NULL]
        /\ q_item = [t \in QThreads |-> NoData]
        /\ enq_calls = [t \in Producers |-> 0]
        /\ enq_hist = <<>>
        /\ deq_hist = <<>>
        /\ deq_by = <<>>
        /\ q_last = [op |-> "none", ret |-> FALSE, queued |-> 0]
        /\ q_bulk_max = [t \in QThreads |-> NULL]
        /\ q_bulk_count = [t \in QThreads |-> 0]
        /\ q_items = [t \in QThreads |-> [i \in ItemSlots |-> Untouched]]
        /\ q_bulk_last = [by |-> NULL, max |-> 0, count |-> 0, queued |-> 0,
                          taken |-> 0]
        /\ q_count = [t \in QThreads |-> 0]
        /\ q_size_ret = NULL

QueueAbsent ==
    /\ q_mode = "absent"
    /\ MPMCQueueCtor(NULL)

\* Items linked and not yet taken.
Queued == Len(enq_hist) - Len(deq_hist)

DeqCount(t) == Cardinality({i \in DOMAIN deq_by : deq_by[i] = t})

\* The nodes reached from n by following next links.
RECURSIVE QChainFrom(_, _)
QChainFrom(n, fuel) ==
    IF n = NULL \/ fuel = 0 THEN <<>>
    ELSE <<n>> \o QChainFrom(node_next[n], fuel - 1)

\* The free list, from free_list_.
QFreeChain == QChainFrom(free_list_, MaxNodes + 1)

\* The linked sequence, from head_ (the sentinel first).
QLinkedChain == QChainFrom(head_, MaxNodes + 1)

\* No node is at once linked and free, and neither chain runs into a cycle.
QChainsApart ==
    /\ {QLinkedChain[i] : i \in DOMAIN QLinkedChain}
           \cap {QFreeChain[i] : i \in DOMAIN QFreeChain} = {}
    /\ Len(QLinkedChain) <= MaxNodes
    /\ Len(QFreeChain) <= MaxNodes

\* A thread may start a call: always when the queue is shared by concurrent
\* threads, only when no other call is in progress in single-threaded use.
\* Mode "live" is one family of concurrent schedules: the first producer runs
\* concurrently with the other threads, which make their calls one at a time,
\* and calls are started while the two chains are apart.
QMayStart(t) ==
    /\ ~q_crashed
    /\ q_pc[t] = "idle"
    /\ \/ q_mode \in {"conc", "consume", "size"}
       \/ q_mode = "seq" /\ \A u \in QThreads : q_pc[u] = "idle"
       \/ q_mode = "live" /\ QChainsApart /\ t = 1
       \/ /\ q_mode = "live" /\ QChainsApart
          /\ \A u \in QThreads \ {1} : q_pc[u] = "idle"

\* The histories and the call counts are kept, and bound the number of calls;
\* in mode "live" the threads call without end, no history is kept and every
\* producer enqueues the same value.
QCounted == q_mode # "live"

\* The threads that enqueue and the threads that dequeue: the producers and
\* the consumers; in mode "consume" every thread but the first dequeues as
\* well; in mode "size" the last producer dequeues as well and the consumers
\* call size() instead.
QEnqueuers == Producers

QDequeuers ==
    IF q_mode = "consume" THEN QThreads \ {1}
    ELSE IF q_mode = "size" THEN {NumProducers}
    ELSE Consumers

QSizers == IF q_mode = "size" THEN Consumers ELSE {}

\* try_enqueue calls each producer makes.
QEnqueueLimit ==
    IF q_mode \in {"consume", "size"} THEN MaxConsumeEnqueues
    ELSE MaxEnqueues

\* Move thread t to a label with the given values of its locals node, head,
\* tail, next and old_head.  A local whose value can no longer be read (the
\* code overwrites it first, or it has gone out of scope) is NULL.
QGoto(t, label, node, head, tail, next, old) ==
    /\ q_pc' = [q_pc EXCEPT ![t] = label]
    /\ q_node' = [q_node EXCEPT ![t] = node]
    /\ q_head' = [q_head EXCEPT ![t] = head]
    /\ q_tail' = [q_tail EXCEPT ![t] = tail]
    /\ q_next' = [q_next EXCEPT ![t] = next]
    /\ q_old_head' = [q_old_head EXCEPT ![t] = old]

\* The value try_dequeue has stored through its out-parameter.
OutValue(t) ==
    IF q_bulk_max[t] = NULL THEN q_item[t] ELSE q_items[t][q_bulk_count[t]]

\* Return from try_enqueue.
EnqReturn(t, ret, queuedBefore) ==
    /\ QGoto(t, "idle", NULL, NULL, NULL, NULL, NULL)
    /\ q_item' = [q_item EXCEPT ![t] = NoData]
    /\ q_last' = IF QCounted
                 THEN [op |-> "enq", ret |-> ret, queued |-> queuedBefore]
                 ELSE q_last
    /\ UNCHANGED qBulk

\* Return from try_dequeue_bulk (line 199): return count.
BulkReturn(t) ==
    /\ QGoto(t, "idle", NULL, NULL, NULL, NULL, NULL)
    /\ q_last' = [op |-> "bulk", ret |-> q_bulk_count[t] > 0,
                  queued |-> q_bulk_last.queued]
    /\ q_bulk_last' = [q_bulk_last EXCEPT !.count = q_bulk_count[t]]
    /\ q_bulk_max' = [q_bulk_max EXCEPT ![t] = NULL]
    /\ UNCHANGED <<q_item, q_bulk_count, q_items>>

\* A try_dequeue that clears the out-parameter when it returns false.
DeqReturnClear(t, ret, queuedBefore) ==
    IF q_bulk_max[t] = NULL
    THEN /\ QGoto(t, "idle", NULL, NULL, NULL, NULL, NULL)
         /\ q_last' = IF QCounted
                      THEN [op |-> "deq", ret |-> ret, queued |-> queuedBefore]
                      ELSE q_last
         /\ q_item' = [q_item EXCEPT ![t] = IF ret THEN @ ELSE NoData]
         /\ UNCHANGED qBulk
    ELSE IF ret
    THEN /\ QGoto(t, "bulk_loop", NULL, NULL, NULL, NULL, NULL)
         /\ q_bulk_count' = [q_bulk_count EXCEPT ![t] = @ + 1]
         /\ UNCHANGED <<q_item, q_last, q_bulk_max, q_items, q_bulk_last>>
    ELSE BulkReturn(t)

\* Return from try_dequeue; the out-parameter stays with the caller.  Inside
\* try_dequeue_bulk (lines 196-198) a true result increments count and
\* re-enters the loop, a false result ends the loop.
DeqReturn(t, ret, queuedBefore) ==
    IF q_bulk_max[t] = NULL
    THEN /\ QGoto(t, "idle", NULL, NULL, NULL, NULL, NULL)
         /\ q_last' = IF QCounted
                      THEN [op |-> "deq", ret |-> ret, queued |-> queuedBefore]
                      ELSE q_last
         /\ UNCHANGED <<q_item, qBulk>>
    ELSE IF ret
    THEN /\ QGoto(t, "bulk_loop", NULL, NULL, NULL, NULL, NULL)
         /\ q_bulk_count' = [q_bulk_count EXCEPT ![t] = @ + 1]
         /\ UNCHANGED <<q_item, q_last, q_bulk_max, q_items, q_bulk_last>>
    ELSE BulkReturn(t)

\* try_enqueue(item) line 104: the call.
try_enqueue(t) ==
    /\ t \in QEnqueuers
    /\ QMayStart(t)
    /\ QCounted => enq_calls[t] < QEnqueueLimit
    /\ enq_calls' = IF QCounted THEN [enq_calls EXCEPT ![t] = @ + 1]
                    ELSE enq_calls
    /\ q_item' = [q_item EXCEPT ![t] = IF QCounted
                                       THEN ItemOf(t, enq_calls'[t])
                                       ELSE ItemOf(1, 1)]
    /\ QGoto(t, "alloc_load", NULL, NULL, NULL, NULL, NULL)
    /\ UNCHANGED <<qConfig, qShared, enq_hist, deq_hist, deq_by, q_last>>
    /\ UNCHANGED <<qBulk, qSize, notQueue>>

\* allocate_node() lines 242-245: node = free_list_.load(); null => the pool
\* is exhausted and try_enqueue returns false (lines 106-108).
alloc_load(t) ==
    /\ q_pc[t] = "alloc_load"
    /\ IF free_list_ = NULL
       THEN /\ EnqReturn(t, FALSE, Queued)
            /\ UNCHANGED <<enq_calls, enq_hist, deq_hist, deq_by>>
       ELSE /\ QGoto(t, "alloc_next", free_list_, NULL, NULL, NULL, NULL)
            /\ UNCHANGED <<q_item, qHist, qBulk>>
    /\ UNCHANGED <<qConfig, qShared>>
    /\ UNCHANGED <<qSize, notQueue>>

\* allocate_node() line 247: next = node->next.load().
alloc_next(t) ==
    /\ q_pc[t] = "alloc_next"
    /\ QGoto(t, "alloc_cas", q_node[t], NULL, NULL, node_next[q_node[t]], NULL)
    /\ UNCHANGED <<qConfig, qShared, q_item, qHist>>
    /\ UNCHANGED <<qBulk, qSize, notQueue>>

\* allocate_node() lines 248-253: free_list_.compare_exchange_weak(node,
\* next); a failure (changed head, or spurious) repeats the loop.
alloc_cas(t) ==
    /\ q_pc[t] = "alloc_cas"
    /\ \/ /\ free_list_ = q_node[t]
          /\ free_list_' = q_next[t]
          /\ QGoto(t, "enq_data", q_node[t], NULL, NULL, NULL, NULL)
       \/ /\ QGoto(t, "alloc_load", NULL, NULL, NULL, NULL, NULL)
          /\ UNCHANGED free_list_
    /\ UNCHANGED <<qConfig, head_, tail_, node_next, node_data, q_item, qHist>>
    /\ UNCHANGED <<qBulk, qSize, notQueue>>

\* try_enqueue line 110: node->data = item.
enq_data(t) ==
    /\ q_pc[t] = "enq_data"
    /\ node_data' = [node_data EXCEPT ![q_node[t]] = q_item[t]]
    /\ QGoto(t, "enq_next_null", q_node[t], NULL, NULL, NULL, NULL)
    /\ UNCHANGED <<qConfig, head_, tail_, free_list_, node_next, q_item, qHist>>
    /\ UNCHANGED <<qBulk, qSize, notQueue>>

\* try_enqueue line 111: node->next.store(nullptr).
enq_next_null(t) ==
    /\ q_pc[t] = "enq_next_null"
    /\ node_next' = [node_next EXCEPT ![q_node[t]] = NULL]
    /\ QGoto(t, "enq_load_tail", q_node[t], NULL, NULL, NULL, NULL)
    /\ UNCHANGED <<qConfig, head_, tail_, free_list_, node_data, q_item, qHist>>
    /\ UNCHANGED <<qBulk, qSize, notQueue>>

\* try_enqueue line 116: tail = tail_.load().
enq_load_tail(t) ==
    /\ q_pc[t] = "enq_load_tail"
    /\ QGoto(t, "enq_load_next", q_node[t], NULL, tail_, NULL, NULL)
    /\ UNCHANGED <<qConfig, qShared, q_item, qHist>>
    /\ UNCHANGED <<qBulk, qSize, notQueue>>

\* try_enqueue line 117: next = tail->next.load().
enq_load_next(t) ==
    /\ q_pc[t] = "enq_load_next"
    /\ QGoto(t, "enq_check", q_node[t], NULL, q_tail[t],
             node_next[q_tail[t]], NULL)
    /\ UNCHANGED <<qConfig, qShared, q_item, qHist>>
    /\ UNCHANGED <<qBulk, qSize, notQueue>>

\* try_enqueue lines 120-121, 132, 139: re-read tail_ and branch.
enq_check(t) ==
    /\ q_pc[t] = "enq_check"
    /\ IF q_tail[t] = tail_
       THEN IF q_next[t] = NULL
            THEN QGoto(t, "enq_link", q_node[t], NULL, q_tail[t], NULL, NULL)
            ELSE QGoto(t, "enq_help", q_node[t], NULL, q_tail[t], q_next[t],
                       NULL)
       ELSE QGoto(t, "enq_load_tail", q_node[t], NULL, NULL, NULL, NULL)
    /\ UNCHANGED <<qConfig, qShared, q_item, qHist>>
    /\ UNCHANGED <<qBulk, qSize, notQueue>>

\* try_enqueue lines 123-125: tail->next.compare_exchange_weak(next, node)
\* with next == nullptr; success links the node (the enqueue takes effect).
enq_link(t) ==
    /\ q_pc[t] = "enq_link"
    /\ \/ /\ node_next[q_tail[t]] = NULL
          /\ node_next' = [node_next EXCEPT ![q_tail[t]] = q_node[t]]
          /\ enq_hist' = IF QCounted THEN Append(enq_hist, q_item[t])
                          ELSE enq_hist
          /\ QGoto(t, "enq_swing", q_node[t], NULL, q_tail[t], NULL, NULL)
       \/ /\ QGoto(t, "enq_load_tail", q_node[t], NULL, NULL, NULL, NULL)
          /\ UNCHANGED <<node_next, enq_hist>>
    /\ UNCHANGED <<qConfig, head_, tail_, free_list_, node_data, q_item,
                   enq_calls, deq_hist, deq_by, q_last>>
    /\ UNCHANGED <<qBulk, qSize, notQueue>>

\* try_enqueue lines 127-130: tail_.compare_exchange_strong(tail, node),
\* result ignored; return true.
enq_swing(t) ==
    /\ q_pc[t] = "enq_swing"
    /\ tail_' = (IF tail_ = q_tail[t] THEN q_node[t] ELSE tail_)
    /\ EnqReturn(t, TRUE, Queued - 1)
    /\ UNCHANGED <<qConfig, head_, free_list_, node_next, node_data,
                   enq_calls, enq_hist, deq_hist, deq_by>>
    /\ UNCHANGED <<qSize, notQueue>>

\* try_enqueue lines 134-136: help a lagging tail,
\* tail_.compare_exchange_strong(tail, next); then retry.
enq_help(t) ==
    /\ q_pc[t] = "enq_help"
    /\ tail_' = (IF tail_ = q_tail[t] THEN q_next[t] ELSE tail_)
    /\ QGoto(t, "enq_load_tail", q_node[t], NULL, NULL, NULL, NULL)
    /\ UNCHANGED <<qConfig, head_, free_list_, node_next, node_data, q_item,
                   qHist>>
    /\ UNCHANGED <<qBulk, qSize, notQueue>>

\* try_dequeue(item) line 148: the call.
try_dequeue(t) ==
    /\ t \in QDequeuers
    /\ QMayStart(t)
    /\ QCounted => DeqCount(t) < MaxDequeues
    /\ QGoto(t, "deq_load_head", NULL, NULL, NULL, NULL, NULL)
    /\ UNCHANGED <<qConfig, qShared, q_item, qHist>>
    /\ UNCHANGED <<qBulk, qSize, notQueue>>

\* try_dequeue line 151: head = head_.load().
deq_load_head(t) ==
    /\ q_pc[t] = "deq_load_head"
    /\ QGoto(t, "deq_load_tail", NULL, head_, NULL, NULL, NULL)
    /\ UNCHANGED <<qConfig, qShared, q_item, qHist>>
    /\ UNCHANGED <<qBulk, qSize, notQueue>>

\* try_dequeue line 152: tail = tail_.load().
deq_load_tail(t) ==
    /\ q_pc[t] = "deq_load_tail"
    /\ QGoto(t, "deq_load_next", NULL, q_head[t], tail_, NULL, NULL)
    /\ UNCHANGED <<qConfig, qShared, q_item, qHist>>
    /\ UNCHANGED <<qBulk, qSize, notQueue>>

\* try_dequeue line 153: next = head->next.load().
deq_load_next(t) ==
    /\ q_pc[t] = "deq_load_next"
    /\ QGoto(t, "deq_check", NULL, q_head[t], q_tail[t],
             node_next[q_head[t]], NULL)
    /\ UNCHANGED <<qConfig, qShared, q_item, qHist>>
    /\ UNCHANGED <<qBulk, qSize, notQueue>>

\* try_dequeue lines 156-169, 184: re-read head_ and branch; an empty queue
\* (head == tail, next == nullptr) returns false.
deq_check(t) ==
    /\ q_pc[t] = "deq_check"
    /\ IF q_head[t] = head_
       THEN IF q_head[t] = q_tail[t]
            THEN IF q_next[t] = NULL
                 THEN /\ DeqReturn(t, FALSE, Queued)
                      /\ UNCHANGED <<enq_calls, enq_hist, deq_hist, deq_by>>
                 ELSE /\ QGoto(t, "deq_help", NULL, NULL, q_tail[t],
                               q_next[t], NULL)
                      /\ UNCHANGED <<q_item, qHist, qBulk>>
            ELSE IF q_next[t] = NULL
                 THEN /\ QGoto(t, "deq_load_head", NULL, NULL, NULL, NULL,
                               NULL)
                      /\ UNCHANGED <<q_item, qHist, qBulk>>
                 ELSE /\ QGoto(t, "deq_read", NULL, q_head[t], NULL,
                               q_next[t], NULL)
                      /\ UNCHANGED <<q_item, qHist, qBulk>>
       ELSE /\ QGoto(t, "deq_load_head", NULL, NULL, NULL, NULL, NULL)
            /\ UNCHANGED <<q_item, qHist, qBulk>>
    /\ UNCHANGED <<qConfig, qShared>>
    /\ UNCHANGED <<qSize, notQueue>>

\* try_dequeue lines 162-164: help a lagging tail; then retry.
deq_help(t) ==
    /\ q_pc[t] = "deq_help"
    /\ tail_' = (IF tail_ = q_tail[t] THEN q_next[t] ELSE tail_)
    /\ QGoto(t, "deq_load_head", NULL, NULL, NULL, NULL, NULL)
    /\ UNCHANGED <<qConfig, head_, free_list_, node_next, node_data, q_item,
                   qHist>>
    /\ UNCHANGED <<qBulk, qSize, notQueue>>

\* try_dequeue line 172: item = next->data; item is the caller's variable,
\* or items[count] inside try_dequeue_bulk (line 196).
deq_read(t) ==
    /\ q_pc[t] = "deq_read"
    /\ IF q_bulk_max[t] = NULL
       THEN /\ q_item' = [q_item EXCEPT ![t] = node_data[q_next[t]]]
            /\ UNCHANGED q_items
       ELSE /\ q_items' = [q_items EXCEPT ![t][q_bulk_count[t]] =
                                              node_data[q_next[t]]]
            /\ UNCHANGED q_item
    /\ QGoto(t, "deq_cas", NULL, q_head[t], NULL, q_next[t], NULL)
    /\ UNCHANGED <<qConfig, qShared, qHist, q_bulk_max, q_bulk_count,
                   q_bulk_last>>
    /\ UNCHANGED <<qSize, notQueue>>

\* try_dequeue lines 175-177: head_.compare_exchange_weak(head, next);
\* success takes the item (the dequeue takes effect) and reclaims the old
\* head node (line 179).
deq_cas(t) ==
    /\ q_pc[t] = "deq_cas"
    /\ \/ /\ head_ = q_head[t]
          /\ head_' = q_next[t]
          /\ deq_hist' = IF QCounted THEN Append(deq_hist, OutValue(t))
                          ELSE deq_hist
          /\ deq_by' = IF QCounted THEN Append(deq_by, t) ELSE deq_by
          /\ QGoto(t, "reclaim_load", NULL, q_head[t], NULL, NULL, NULL)
       \/ /\ QGoto(t, "deq_load_head", NULL, NULL, NULL, NULL, NULL)
          /\ UNCHANGED <<head_, deq_hist, deq_by>>
    /\ UNCHANGED <<qConfig, tail_, free_list_, node_next, node_data, q_item,
                   enq_calls, enq_hist, q_last>>
    /\ UNCHANGED <<qBulk, qSize, notQueue>>

\* reclaim_node(head) line 265: old_head = free_list_.load().
reclaim_load(t) ==
    /\ q_pc[t] = "reclaim_load"
    /\ QGoto(t, "reclaim_store", NULL, q_head[t], NULL, NULL, free_list_)
    /\ UNCHANGED <<qConfig, qShared, q_item, qHist>>
    /\ UNCHANGED <<qBulk, qSize, notQueue>>

\* reclaim_node(head) line 266: node->next.store(old_head).
reclaim_store(t) ==
    /\ q_pc[t] = "reclaim_store"
    /\ node_next' = [node_next EXCEPT ![q_head[t]] = q_old_head[t]]
    /\ QGoto(t, "reclaim_cas", NULL, q_head[t], NULL, NULL, q_old_head[t])
    /\ UNCHANGED <<qConfig, head_, tail_, free_list_, node_data, q_item, qHist>>
    /\ UNCHANGED <<qBulk, qSize, notQueue>>

\* reclaim_node(head) lines 268-273: free_list_.compare_exchange_weak(
\* old_head, node); success returns, and try_dequeue returns true (line 180).
reclaim_cas(t) ==
    /\ q_pc[t] = "reclaim_cas"
    /\ \/ /\ free_list_ = q_old_head[t]
          /\ free_list_' = q_head[t]
          /\ DeqReturn(t, TRUE, Queued + 1)
       \/ /\ QGoto(t, "reclaim_load", NULL, q_head[t], NULL, NULL, NULL)
          /\ UNCHANGED <<free_list_, q_item, q_last, qBulk>>
    /\ UNCHANGED <<qConfig, head_, tail_, node_next, node_data, enq_calls,
                   enq_hist, deq_hist, deq_by>>
    /\ UNCHANGED <<qSize, notQueue>>

\* empty() lines 205-209, called while no other call is in progress.
empty == node_next[head_] = NULL

QueueIdle == \A t \in QThreads : q_pc[t] = "idle"

\* try_dequeue_bulk(items, max_count) lines 194-195: the call; count = 0.
try_dequeue_bulk(t) ==
    /\ t \in Consumers
    /\ QMayStart(t)
    /\ DeqCount(t) < MaxDequeues
    /\ \E max_count \in 0..MaxBulk :
          /\ q_bulk_max' = [q_bulk_max EXCEPT ![t] = max_count]
          /\ q_bulk_last' = [by |-> t, max |-> max_count, count |-> 0,
                             queued |-> Queued, taken |-> Len(deq_hist)]
    /\ q_bulk_count' = [q_bulk_count EXCEPT ![t] = 0]
    /\ q_items' = [q_items EXCEPT ![t] = [i \in ItemSlots |-> Untouched]]
    /\ QGoto(t, "bulk_loop", NULL, NULL, NULL, NULL, NULL)
    /\ UNCHANGED <<qConfig, qShared, q_item, qHist>>
    /\ UNCHANGED <<qSize, notQueue>>

\* try_dequeue_bulk line 196: while (count < max_count && try_dequeue(
\* items[count])); line 199: return count.
bulk_loop(t) ==
    /\ q_pc[t] = "bulk_loop"
    /\ IF q_bulk_count[t] < q_bulk_max[t]
       THEN /\ QGoto(t, "deq_load_head", NULL, NULL, NULL, NULL, NULL)
            /\ UNCHANGED <<q_item, q_last, qBulk>>
       ELSE BulkReturn(t)
    /\ UNCHANGED <<qConfig, qShared, enq_calls, enq_hist, deq_hist, deq_by>>
    /\ UNCHANGED <<qSize, notQueue>>

\* size() lines 215-216: count = 0; current = head_.load().
qsize_load_head(t) ==
    /\ t \in QSizers
    /\ QMayStart(t)
    /\ QGoto(t, "size_load_next", NULL, head_, NULL, NULL, NULL)
    /\ q_count' = [q_count EXCEPT ![t] = 0]
    /\ UNCHANGED <<qConfig, qShared, q_item, qHist, qBulk, q_size_ret>>
    /\ UNCHANGED notQueue

\* size() line 217: next = current->next.load().
qsize_load_next(t) ==
    /\ q_pc[t] = "size_load_next"
    /\ QGoto(t, "size_walk", NULL, q_head[t], NULL, node_next[q_head[t]], NULL)
    /\ UNCHANGED <<qConfig, qShared, q_item, qHist, qBulk, qSize>>
    /\ UNCHANGED notQueue

\* size() lines 219-225: while (next != nullptr && count < MaxNodes)
\* { ++count; current = next; next = current->next.load(); } return count.
qsize_walk(t) ==
    /\ q_pc[t] = "size_walk"
    /\ IF q_next[t] # NULL /\ q_count[t] < MaxNodes
       THEN /\ q_count' = [q_count EXCEPT ![t] = @ + 1]
            /\ QGoto(t, "size_walk", NULL, q_next[t], NULL,
                     node_next[q_next[t]], NULL)
            /\ UNCHANGED q_size_ret
       ELSE /\ q_size_ret' = q_count[t]
            /\ q_count' = [q_count EXCEPT ![t] = 0]
            /\ QGoto(t, "idle", NULL, NULL, NULL, NULL, NULL)
    /\ UNCHANGED <<qConfig, qShared, q_item, qHist, qBulk>>
    /\ UNCHANGED notQueue

\* size() called while no other call is in progress: the walk of lines
\* 215-225 from node current with the link next already loaded.
RECURSIVE SizeWalk(_, _)
SizeWalk(next, count) ==
    IF next # NULL /\ count < MaxNodes
    THEN SizeWalk(node_next[next], count + 1)
    ELSE count

sizeNow == SizeWalk(node_next[head_], 0)

QueueNext ==
    \E t \in QThreads :
        \/ try_enqueue(t)
        \/ alloc_load(t)
        \/ alloc_next(t)
        \/ alloc_cas(t)
        \/ enq_data(t)
        \/ enq_next_null(t)
        \/ enq_load_tail(t)
        \/ enq_load_next(t)
        \/ enq_check(t)
        \/ enq_link(t)
        \/ enq_swing(t)
        \/ enq_help(t)
        \/ try_dequeue(t)
        \/ deq_load_head(t)
        \/ deq_load_tail(t)
        \/ deq_load_next(t)
        \/ deq_check(t)
        \/ deq_help(t)
        \/ deq_read(t)
        \/ deq_cas(t)
        \/ reclaim_load(t)
        \/ reclaim_store(t)
        \/ reclaim_cas(t)

\* Thread t takes a step of the call it is in, or starts a call.
QThreadStep(t) ==
    \/ try_enqueue(t)
    \/ alloc_load(t)
    \/ alloc_next(t)
    \/ alloc_cas(t)
    \/ enq_data(t)
    \/ enq_next_null(t)
    \/ enq_load_tail(t)
    \/ enq_load_next(t)
    \/ enq_check(t)
    \/ enq_link(t)
    \/ enq_swing(t)
    \/ enq_help(t)
    \/ try_dequeue(t)
    \/ deq_load_head(t)
    \/ deq_load_tail(t)
    \/ deq_load_next(t)
    \/ deq_check(t)
    \/ deq_help(t)
    \/ deq_read(t)
    \/ deq_cas(t)
    \/ reclaim_load(t)
    \/ reclaim_store(t)
    \/ reclaim_cas(t)

\* A compare_exchange_weak of try_enqueue (lines 248 and 121) succeeds.
EnqCasSucceeds(t) ==
    \/ alloc_cas(t) /\ q_pc'[t] = "enq_data"
    \/ enq_link(t) /\ q_pc'[t] = "enq_swing"

\* Every thread keeps taking steps, and a compare_exchange_weak that could
\* succeed again and again does not fail for ever.
QueueFairness ==
    /\ \A t \in QThreads : WF_vars(QThreadStep(t))
    /\ \A t \in Producers : SF_vars(EnqCasSucceeds(t))

\* A compare_exchange_weak of try_dequeue (lines 175 and 268) succeeds.
DeqCasSucceeds(t) ==
    \/ deq_cas(t) /\ q_pc'[t] = "reclaim_load"
    \/ reclaim_cas(t) /\ q_pc'[t] = "idle"

\* Thread t takes a step of the call it is in.
QCallStep(t) == q_pc[t] # "idle" /\ QThreadStep(t)

\* A call of thread t returns.
QCompletes(t) == q_pc[t] # "idle" /\ QThreadStep(t) /\ q_pc'[t] = "idle"

\* Every thread inside a call keeps taking steps (a thread need not start
\* another call), and no compare_exchange_weak that could succeed again and
\* again fails for ever.
QueueFairnessInCall ==
    /\ \A t \in QThreads : WF_vars(QCallStep(t))
    /\ \A t \in Producers : SF_vars(EnqCasSucceeds(t))
    /\ \A t \in Consumers : SF_vars(DeqCasSucceeds(t))

\* One thread also uses try_dequeue_bulk.
QueueBulkNext ==
    \/ QueueNext
    \/ \E t \in Consumers :
          \/ try_dequeue_bulk(t)
          \/ bulk_loop(t)

\* The consumers call size() while the producers enqueue and dequeue.
QueueSizeNext ==
    \/ QueueNext
    \/ \E t \in QThreads :
          \/ qsize_load_head(t)
          \/ qsize_load_next(t)
          \/ qsize_walk(t)

\* Values free_list_ can hold when the constructor body begins.
CtorSeeds == {NULL} \cup Nodes

\* Several producers and consumers share the queue.  The concurrent runs
\* start from the constructor's fault and from the one stale value,
\* &node_pool_[0] (the node the loop never pushes), with which the constructor
\* leaves a sentinel that is not on the free list; SpecQueueSeq explores the
\* other stale values.
QueueInit ==
    /\ q_mode = "conc"
    /\ \E seed \in {NULL, 0} : MPMCQueueCtor(seed)

\* The threads use the queue without end, starting from the well-formed
\* construction.
QueueLiveInit ==
    /\ q_mode = "live"
    /\ MPMCQueueCtor(0)

\* The producers enqueue and all threads but the first dequeue, concurrently,
\* starting from the well-formed construction.
QueueConsumeInit ==
    /\ q_mode = "consume"
    /\ MPMCQueueCtor(0)

\* The producers enqueue, the last producer also dequeues, and the consumers
\* call size(), concurrently, starting from the well-formed construction.
QueueSizeInit ==
    /\ q_mode = "size"
    /\ MPMCQueueCtor(0)

\* One thread at a time uses the queue.
QueueSeqInit ==
    /\ q_mode = "seq"
    /\ \E seed \in CtorSeeds : MPMCQueueCtor(seed)

-----------------------------------------------------------------------------
(* uint64_t values.  A value is the tuple of its four 16-bit limbs, most   *)
(* significant first, so that the whole 64-bit range and its wrap-around   *)
(* are represented exactly.                                                 *)

LimbBase == Pow2(16)

U64(n) == <<0, 0, (n \div LimbBase) % LimbBase, n % LimbBase>>

UINT64_MAX == <<LimbBase - 1, LimbBase - 1, LimbBase - 1, LimbBase - 1>>

U64IsZero(x) == x = <<0, 0, 0, 0>>

\* x < y.
U64Less(x, y) ==
    \E i \in 1..4 : x[i] < y[i] /\ \A j \in 1..(i - 1) : x[j] = y[j]

U64LessEq(x, y) == x = y \/ U64Less(x, y)

\* x + y modulo 2^64.
U64Add(x, y) ==
    LET s4 == x[4] + y[4]
        s3 == x[3] + y[3] + s4 \div LimbBase
        s2 == x[2] + y[2] + s3 \div LimbBase
        s1 == x[1] + y[1] + s2 \div LimbBase
    IN  <<s1 % LimbBase, s2 % LimbBase, s3 % LimbBase, s4 % LimbBase>>

\* x * m modulo 2^64, for a small multiplier m.
U64MulSmall(x, m) ==
    LET p4 == x[4] * m
        p3 == x[3] * m + p4 \div LimbBase
        p2 == x[2] * m + p3 \div LimbBase
        p1 == x[1] * m + p2 \div LimbBase
    IN  <<p1 % LimbBase, p2 % LimbBase, p3 % LimbBase, p4 % LimbBase>>

\* x / d (integer division), for a small divisor d.
U64DivSmall(x, d) ==
    LET q1 == x[1] \div d
        r1 == x[1] % d
        q2 == (r1 * LimbBase + x[2]) \div d
        r2 == (r1 * LimbBase + x[2]) % d
        q3 == (r2 * LimbBase + x[3]) \div d
        r3 == (r2 * LimbBase + x[3]) % d
        q4 == (r3 * LimbBase + x[4]) \div d
    IN  <<q1, q2, q3, q4>>

\* x >> 1.
U64Shr1(x) ==
    <<x[1] \div 2,
      (x[1] % 2) * (LimbBase \div 2) + x[2] \div 2,
      (x[2] % 2) * (LimbBase \div 2) + x[3] \div 2,
      (x[3] % 2) * (LimbBase \div 2) + x[4] \div 2>>

\* 1ULL << b, for b in 0 .. 63.
U64Pow2(b) ==
    [i \in 1..4 |-> IF 4 - i = b \div 16 THEN Pow2(b % 16) ELSE 0]

\* x - y modulo 2^64.
U64Sub(x, y) ==
    LET d4 == x[4] - y[4]
        b4 == IF d4 < 0 THEN 1 ELSE 0
        d3 == x[3] - y[3] - b4
        b3 == IF d3 < 0 THEN 1 ELSE 0
        d2 == x[2] - y[2] - b3
        b2 == IF d2 < 0 THEN 1 ELSE 0
        d1 == x[1] - y[1] - b2
    IN  <<d1 % LimbBase, d2 % LimbBase, d3 % LimbBase, d4 % LimbBase>>

-----------------------------------------------------------------------------
(* LatencyHistogram *)

\* Line 23.
NUM_BUCKETS == 32

Buckets == 0..(NUM_BUCKETS - 1)

HistThreads == 1..NumHistThreads

\* Latencies passed to record, in nanoseconds: around the first bucket
\* boundaries, inside higher buckets, beyond the top bucket, and large
\* enough for two of them to exceed 64 bits.
SampleValues ==
    {U64(0), U64(999), U64(1000), U64(1500), U64(2000), U64(5000),
     U64Pow2(41), U64Pow2(63)}

\* 2^b microseconds in nanoseconds.
EdgeNs(b) == U64MulSmall(U64Pow2(b), 1000)

\* Latencies at the bucket boundaries and next to them: 1 us, 2 us, 4 us,
\* 2^29 us, 2^30 us, 2^31 us, and the largest 64-bit value.
EdgeSamples ==
    {U64(0), U64(999), U64(1000), U64(1999), U64(2000), U64(3999), U64(4000),
     U64Sub(EdgeNs(29), U64(1)), EdgeNs(29),
     U64Sub(EdgeNs(30), U64(1)), EdgeNs(30),
     U64Sub(EdgeNs(31), U64(1)), EdgeNs(31), UINT64_MAX}

\* The latencies record is called with.
RecordArgs == IF hist_mode = "edges" THEN EdgeSamples ELSE SampleValues

\* get_bucket lines 169-172: while (val > 0 && bucket < NUM_BUCKETS - 1)
\* { val >>= 1; ++bucket; }.
RECURSIVE GetBucketLoop(_, _)
GetBucketLoop(val, bucket) ==
    IF ~U64IsZero(val) /\ bucket < NUM_BUCKETS - 1
    THEN GetBucketLoop(U64Shr1(val), bucket + 1)
    ELSE bucket

\* get_bucket counting the shifts that leave a non-zero value.
get_bucket_floor(ns) ==
    IF U64IsZero(ns) THEN 0
    ELSE LET latency_us == U64DivSmall(ns, 1000)
         IN  IF U64IsZero(latency_us) THEN 0
             ELSE Min(GetBucketLoop(U64Shr1(latency_us), 0), NUM_BUCKETS - 1)

\* get_bucket lines 159-175.
get_bucket(ns) ==
    IF U64IsZero(ns) THEN 0
    ELSE LET latency_us == U64DivSmall(ns, 1000)
         IN  IF U64IsZero(latency_us) THEN 0
             ELSE Min(GetBucketLoop(latency_us, 0), NUM_BUCKETS - 1)

\* get_bucket_upper_bound with the shift and the product in 32 bits.
get_bucket_upper_bound32(bucket) ==
    IF bucket = 0 THEN U64(1000)
    ELSE LET wide == U64MulSmall(U64Pow2(bucket), 1000)
         IN  <<0, 0, wide[3], wide[4]>>

\* get_bucket_upper_bound lines 180-183.
get_bucket_upper_bound(bucket) ==
    IF bucket = 0 THEN U64(1000)
    ELSE U64MulSmall(U64Pow2(bucket), 1000)

\* count() lines 129-131.
count == total_count_

\* min() lines 97-99.
min == min_

\* max() lines 104-106.
max == max_

\* mean() lines 111-115.
mean ==
    IF total_count_ = 0 THEN U64(0) ELSE U64DivSmall(sum_, total_count_)

\* The walk returning the bound of the bucket after the one found.
RECURSIVE PercentileWalkNext(_, _, _)
PercentileWalkNext(i, cumulative, target) ==
    IF i >= NUM_BUCKETS THEN get_bucket_upper_bound(NUM_BUCKETS - 1)
    ELSE IF cumulative + buckets_[i] >= target
         THEN get_bucket_upper_bound(Min(i + 1, NUM_BUCKETS - 1))
         ELSE PercentileWalkNext(i + 1, cumulative + buckets_[i], target)

\* get_percentile lines 56-61: the walk over the buckets from bucket i.
RECURSIVE PercentileWalk(_, _, _)
PercentileWalk(i, cumulative, target) ==
    IF i >= NUM_BUCKETS THEN get_bucket_upper_bound(NUM_BUCKETS - 1)
    ELSE IF cumulative + buckets_[i] >= target
         THEN get_bucket_upper_bound(i)
         ELSE PercentileWalk(i + 1, cumulative + buckets_[i], target)

\* get_percentile(percentile) lines 49-64, for percentile = num / den.  The
\* conversion static_cast<uint64_t>(total * percentile) truncates.
get_percentile(num, den) ==
    IF total_count_ = 0 THEN U64(0)
    ELSE PercentileWalk(0, 0, (total_count_ * num) \div den)

\* Lines 69-92.
p50 == get_percentile(50, 100)

p99 == get_percentile(99, 100)

p999 == get_percentile(999, 1000)

p9999 == get_percentile(9999, 10000)

\* reset() storing 0 into min_.
HistResetMinZero(b, total, mn, mx, sm) ==
    /\ b = [i \in Buckets |-> 0]
    /\ total = 0
    /\ mn = U64(0)
    /\ mx = U64(0)
    /\ sm = U64(0)

\* reset() lines 136-144, also the whole of the constructor (lines 25-27).
HistReset(b, total, mn, mx, sm) ==
    /\ b = [i \in Buckets |-> 0]
    /\ total = 0
    /\ mn = UINT64_MAX
    /\ mx = U64(0)
    /\ sm = U64(0)

LatencyHistogramCtor ==
    /\ HistReset(buckets_, total_count_, min_, max_, sum_)
    /\ hist_pc = [t \in HistThreads |-> "idle"]
    /\ latency_ns = [t \in HistThreads |-> U64(0)]
    /\ hist_current = [t \in HistThreads |-> U64(0)]
    /\ hist_calls = 0
    /\ recorded = <<>>

HistAbsent ==
    /\ hist_mode = "absent"
    /\ LatencyHistogramCtor

HistIdle == \A t \in HistThreads : hist_pc[t] = "idle"

HistMayStart(t) ==
    /\ hist_pc[t] = "idle"
    /\ \/ hist_mode = "conc"
       \/ hist_mode \in {"seq", "edges"} /\ HistIdle

HistGoto(t, label) == hist_pc' = [hist_pc EXCEPT ![t] = label]

\* record(latency_ns) lines 32-34: bucket = get_bucket(latency_ns);
\* buckets_[bucket].fetch_add(1).
record_bucket(t) ==
    /\ HistMayStart(t)
    /\ hist_calls < MaxRecords
    /\ hist_calls' = hist_calls + 1
    /\ \E ns \in RecordArgs :
          /\ latency_ns' = [latency_ns EXCEPT ![t] = ns]
          /\ buckets_' = [buckets_ EXCEPT ![get_bucket(ns)] = @ + 1]
    /\ HistGoto(t, "record_total")
    /\ UNCHANGED <<hist_mode, total_count_, min_, max_, sum_, hist_current,
                   recorded>>
    /\ UNCHANGED notHist

\* record adding 2 to total_count_.
record_total_twice(t) ==
    /\ hist_pc[t] = "record_total"
    /\ total_count_' = total_count_ + 2
    /\ HistGoto(t, "update_min_load")
    /\ UNCHANGED <<hist_mode, buckets_, min_, max_, sum_, latency_ns,
                   hist_current, hist_calls, recorded>>
    /\ UNCHANGED notHist

\* record line 35: total_count_.fetch_add(1).
record_total(t) ==
    /\ hist_pc[t] = "record_total"
    /\ total_count_' = total_count_ + 1
    /\ HistGoto(t, "update_min_load")
    /\ UNCHANGED <<hist_mode, buckets_, min_, max_, sum_, latency_ns,
                   hist_current, hist_calls, recorded>>
    /\ UNCHANGED notHist

\* update_min line 189: current = min_.load().
update_min_load(t) ==
    /\ hist_pc[t] = "update_min_load"
    /\ hist_current' = [hist_current EXCEPT ![t] = min_]
    /\ HistGoto(t, "update_min_cas")
    /\ UNCHANGED <<hist_mode, histShared, latency_ns, hist_calls, recorded>>
    /\ UNCHANGED notHist

\* update_min with a plain store in place of the compare-exchange.
update_min_store(t) ==
    /\ hist_pc[t] = "update_min_cas"
    /\ IF ~U64Less(latency_ns[t], hist_current[t])
       THEN UNCHANGED min_
       ELSE min_' = latency_ns[t]
    /\ HistGoto(t, "update_max_load")
    /\ UNCHANGED <<hist_mode, buckets_, total_count_, max_, sum_, latency_ns,
                   hist_current, hist_calls, recorded>>
    /\ UNCHANGED notHist

\* update_min lines 190-196: while (value < current) the weak exchange of
\* min_ from current to value either succeeds (break) or fails and reloads
\* current.
update_min_cas(t) ==
    /\ hist_pc[t] = "update_min_cas"
    /\ IF ~U64Less(latency_ns[t], hist_current[t])
       THEN /\ HistGoto(t, "update_max_load")
            /\ UNCHANGED <<min_, hist_current>>
       ELSE \/ /\ min_ = hist_current[t]
               /\ min_' = latency_ns[t]
               /\ HistGoto(t, "update_max_load")
               /\ UNCHANGED hist_current
            \/ /\ hist_current' = [hist_current EXCEPT ![t] = min_]
               /\ UNCHANGED <<min_, hist_pc>>
    /\ UNCHANGED <<hist_mode, buckets_, total_count_, max_, sum_, latency_ns,
                   hist_calls, recorded>>
    /\ UNCHANGED notHist

\* update_max line 203: current = max_.load().
update_max_load(t) ==
    /\ hist_pc[t] = "update_max_load"
    /\ hist_current' = [hist_current EXCEPT ![t] = max_]
    /\ HistGoto(t, "update_max_cas")
    /\ UNCHANGED <<hist_mode, histShared, latency_ns, hist_calls, recorded>>
    /\ UNCHANGED notHist

\* update_max with a plain store in place of the compare-exchange.
update_max_store(t) ==
    /\ hist_pc[t] = "update_max_cas"
    /\ IF ~U64Less(hist_current[t], latency_ns[t])
       THEN UNCHANGED max_
       ELSE max_' = latency_ns[t]
    /\ HistGoto(t, "record_sum")
    /\ UNCHANGED <<hist_mode, buckets_, total_count_, min_, sum_, latency_ns,
                   hist_current, hist_calls, recorded>>
    /\ UNCHANGED notHist

\* update_max lines 204-210: while (value > current) the weak exchange of
\* max_ from current to value either succeeds (break) or fails and reloads
\* current.
update_max_cas(t) ==
    /\ hist_pc[t] = "update_max_cas"
    /\ IF ~U64Less(hist_current[t], latency_ns[t])
       THEN /\ HistGoto(t, "record_sum")
            /\ UNCHANGED <<max_, hist_current>>
       ELSE \/ /\ max_ = hist_current[t]
               /\ max_' = latency_ns[t]
               /\ HistGoto(t, "record_sum")
               /\ UNCHANGED hist_current
            \/ /\ hist_current' = [hist_current EXCEPT ![t] = max_]
               /\ UNCHANGED <<max_, hist_pc>>
    /\ UNCHANGED <<hist_mode, buckets_, total_count_, min_, sum_, latency_ns,
                   hist_calls, recorded>>
    /\ UNCHANGED notHist

\* record line 42: sum_.fetch_add(latency_ns); record returns.
record_sum(t) ==
    /\ hist_pc[t] = "record_sum"
    /\ sum_' = U64Add(sum_, latency_ns[t])
    /\ recorded' = Append(recorded, latency_ns[t])
    /\ HistGoto(t, "idle")
    /\ latency_ns' = [latency_ns EXCEPT ![t] = U64(0)]
    /\ hist_current' = [hist_current EXCEPT ![t] = U64(0)]
    /\ UNCHANGED <<hist_mode, buckets_, total_count_, min_, max_, hist_calls>>
    /\ UNCHANGED notHist

\* reset() lines 136-144, called while no record is in progress.
reset(t) ==
    /\ hist_pc[t] = "idle"
    /\ HistIdle
    /\ HistReset(buckets_', total_count_', min_', max_', sum_')
    /\ recorded' = <<>>
    /\ UNCHANGED <<hist_mode, hist_pc, latency_ns, hist_current, hist_calls>>
    /\ UNCHANGED notHist

HistNext ==
    \E t \in HistThreads :
        \/ record_bucket(t)
        \/ record_total(t)
        \/ update_min_load(t)
        \/ update_min_cas(t)
        \/ update_max_load(t)
        \/ update_max_cas(t)
        \/ record_sum(t)

\* record calls, and reset() while no record is in progress.
HistSeqNext ==
    \/ HistNext
    \/ \E t \in HistThreads : reset(t)

\* Several threads record concurrently.
HistInit ==
    /\ hist_mode = "conc"
    /\ LatencyHistogramCtor

HistSeqInit ==
    /\ hist_mode = "seq"
    /\ LatencyHistogramCtor

\* One thread records samples at the bucket boundaries.
HistEdgesInit ==
    /\ hist_mode = "edges"
    /\ LatencyHistogramCtor

-----------------------------------------------------------------------------
(* Timestamp (timestamp.hpp), rdtscp (common.hpp) *)

\* Byte k of x, byte 0 the least significant.
U64Byte(x, k) == (x[4 - k \div 2] \div Pow2(8 * (k % 2))) % 256

\* Bit i of x, bit 0 the least significant.
U64Bit(x, i) == (x[4 - i \div 16] \div Pow2(i % 16)) % 2

\* x * y modulo 2^64, byte by byte from the most significant byte of y.
RECURSIVE U64MulLoop(_, _, _, _)
U64MulLoop(x, y, k, acc) ==
    IF k < 0 THEN acc
    ELSE U64MulLoop(x, y, k - 1,
                    U64Add(U64MulSmall(acc, 256),
                           U64MulSmall(x, U64Byte(y, k))))

U64Mul(x, y) == U64MulLoop(x, y, 7, U64(0))

\* Binary long division of n by d # 0 over bits i down to lo, r the
\* remainder of the bits above bit i: the quotient bits and the remainder.
RECURSIVE U64DivLoop(_, _, _, _, _)
U64DivLoop(n, d, i, lo, r) ==
    IF i < lo THEN <<U64(0), r>>
    ELSE LET out  == r[1] \div (LimbBase \div 2)
             r2   == U64Add(U64MulSmall(r, 2), U64(U64Bit(n, i)))
             fits == out = 1 \/ U64LessEq(d, r2)
             rest == IF fits THEN U64DivLoop(n, d, i - 1, lo, U64Sub(r2, d))
                             ELSE U64DivLoop(n, d, i - 1, lo, r2)
         IN  <<IF fits THEN U64Add(U64Pow2(i), rest[1]) ELSE rest[1],
               rest[2]>>

\* n / d for d # 0, one limb of the quotient after the other.
U64Div(n, d) ==
    LET q1 == U64DivLoop(n, d, 63, 48, U64(0))
        q2 == U64DivLoop(n, d, 47, 32, q1[2])
        q3 == U64DivLoop(n, d, 31, 16, q2[2])
        q4 == U64DivLoop(n, d, 15, 0, q3[2])
    IN  U64Add(U64Add(q1[1], q2[1]), U64Add(q3[1], q4[1]))

\* 1000000000ULL, lines 52, 66 and 116.
NANOS_PER_SECOND == 1000000000

\* 1000000ULL, line 59.
MICROS_PER_SECOND == 1000000

\* std::chrono::milliseconds(100), line 105, in nanoseconds.
SLEEP_NS == 100000000

\* Cycles the counter of an x86-64 build advances between the two reads of
\* calibrate_tsc: a 24 MHz, a 1 GHz and a 3 GHz counter over 100 ms and
\* the 3 GHz counter over the longest measured interval.
CycleDiffs == {2400000, 100000000, 300000000, 300174000}

\* Nanoseconds high_resolution_clock measures across sleep_for(100 ms).
Durations == {SLEEP_NS, SLEEP_NS + 58000}

\* Counter values the first rdtscp of calibrate_tsc reads on x86-64; the
\* last is so close to 2^64 that the second read has wrapped.
StartTscs == {U64(0), U64(123456789), U64Sub(U64(0), U64(1000))}

\* Seven seconds: the cycles of a 3 GHz counter, and the nanoseconds.
SevenSeconds ==
    {U64MulSmall(U64(3000000), 7000), U64MulSmall(U64(1000000), 7000)}

\* Arguments of the conversions.
ConvArgs ==
    {U64(0), U64(1), U64(3000), U64(NANOS_PER_SECOND), U64Pow2(40),
     UINT64_MAX} \cup SevenSeconds

\* common.hpp lines 54-63: the counter on x86-64, the constant 0 elsewhere.
rdtscp(counter) == IF ts_has_counter THEN counter ELSE U64(0)

\* Line 116.
FrequencyOf(tsc_diff, duration_ns) ==
    U64Div(U64Mul(tsc_diff, U64(NANOS_PER_SECOND)), U64(duration_ns))

NoConversion == [op |-> "none", arg |-> U64(0), ret |-> U64(0),
                 div_by_zero |-> FALSE, trapped |-> FALSE]

TimestampAbsent ==
    /\ ts_mode = "absent"
    /\ ts_has_counter = FALSE
    /\ tsc_frequency_ = U64(0)
    /\ ts_calibrated = FALSE
    /\ ts_last = NoConversion

\* Line 119: tsc_frequency_ = 0 until initialize() runs.
TimestampInit ==
    /\ ts_mode = "on"
    /\ ts_has_counter \in BOOLEAN
    /\ tsc_frequency_ = U64(0)
    /\ ts_calibrated = FALSE
    /\ ts_last = NoConversion

TsRunning == ts_mode = "on" /\ ~ts_last.trapped

\* The conversions are called after initialize() has returned.
TsConverting == TsRunning /\ ts_calibrated

\* initialize, lines 21-23, and calibrate_tsc, lines 99-117.  It is called
\* once, at program startup.
initialize ==
    /\ TsRunning
    /\ ~ts_calibrated
    /\ \E start \in StartTscs, diff \in CycleDiffs, duration_ns \in Durations :
          LET start_tsc == rdtscp(start)
              end_tsc   == rdtscp(U64Add(start, U64(diff)))
              tsc_diff  == U64Sub(end_tsc, start_tsc)
          IN  tsc_frequency_' = FrequencyOf(tsc_diff, duration_ns)
    /\ ts_calibrated' = TRUE
    /\ UNCHANGED <<ts_mode, ts_has_counter, ts_last, cpuVars, thrVars,
                   schedVars, notUtil>>

\* An integer division of the conversions.  Dividing by zero is undefined:
\* the division instruction traps, or it yields a value of its own (0 on
\* AArch64) and the program goes on.
Divide(op, arg, n, d) ==
    IF U64IsZero(d)
    THEN \E trap \in BOOLEAN, v \in {U64(0), UINT64_MAX} :
            ts_last' = [op |-> op, arg |-> arg, ret |-> v,
                        div_by_zero |-> TRUE, trapped |-> trap]
    ELSE ts_last' = [op |-> op, arg |-> arg, ret |-> U64Div(n, d),
                     div_by_zero |-> FALSE, trapped |-> FALSE]

\* Lines 51-53.
tsc_to_ns ==
    /\ TsConverting
    /\ \E tsc \in ConvArgs :
          Divide("tsc_to_ns", tsc, U64Mul(tsc, U64(NANOS_PER_SECOND)),
                 tsc_frequency_)
    /\ UNCHANGED <<ts_mode, ts_has_counter, tsc_frequency_, ts_calibrated,
                   cpuVars, thrVars, schedVars, notUtil>>

\* Lines 58-60.
tsc_to_us ==
    /\ TsConverting
    /\ \E tsc \in ConvArgs :
          Divide("tsc_to_us", tsc, U64Mul(tsc, U64(MICROS_PER_SECOND)),
                 tsc_frequency_)
    /\ UNCHANGED <<ts_mode, ts_has_counter, tsc_frequency_, ts_calibrated,
                   cpuVars, thrVars, schedVars, notUtil>>

\* Lines 65-67.
ns_to_tsc ==
    /\ TsConverting
    /\ \E ns \in ConvArgs :
          Divide("ns_to_tsc", ns, U64Mul(ns, tsc_frequency_),
                 U64(NANOS_PER_SECOND))
    /\ UNCHANGED <<ts_mode, ts_has_counter, tsc_frequency_, ts_calibrated,
                   cpuVars, thrVars, schedVars, notUtil>>

TimestampNext == initialize \/ tsc_to_ns \/ tsc_to_us \/ ns_to_tsc

-----------------------------------------------------------------------------
(* ThreadUtils::safe_stoi and ThreadUtils::parse_cpu_list                  *)
(* (thread_utils.hpp).  A std::string is the sequence of its characters.   *)

\* INT_MAX of <climits>, line 230.
INT_MAX == 2147483647

DigitChars == <<"0", "1", "2", "3", "4", "5", "6", "7", "8", "9">>

IsDigit(c) == \E v \in 1..10 : DigitChars[v] = c

DigitValue(c) == (CHOOSE v \in 1..10 : DigitChars[v] = c) - 1

\* isspace, as strtol uses it to skip leading white space.
IsSpace(c) == c = " "

\* s.substr(from) with from counted from 1.
Substr(s, from) == SubSeq(s, from, Len(s))

\* std::string::find(c): the first position of c, 0 for npos.
Find(s, c) ==
    IF \E i \in 1..Len(s) : s[i] = c
    THEN CHOOSE i \in 1..Len(s) : s[i] = c /\ \A j \in 1..(i - 1) : s[j] # c
    ELSE 0

\* The digits strtol consumes from position i on: the value when it fits
\* an int, INT_MAX + 1 being out of reach the flag big says it does not;
\* and the position after the last digit.
RECURSIVE StrtolDigits(_, _, _, _)
StrtolDigits(s, i, val, big) ==
    IF i <= Len(s) /\ IsDigit(s[i])
    THEN LET v == DigitValue(s[i])
             over == big \/ val > (INT_MAX - v) \div 10
         IN  StrtolDigits(s, i + 1, IF over THEN 0 ELSE 10 * val + v, over)
    ELSE [val |-> val, big |-> big, end |-> i]

RECURSIVE SkipSpace(_, _)
SkipSpace(s, i) ==
    IF i <= Len(s) /\ IsSpace(s[i]) THEN SkipSpace(s, i + 1) ELSE i

\* std::strtol(str, &end, 10) on a 64-bit long: leading white space, an
\* optional sign, decimal digits.  end = 1 when no digits were read
\* (end == str.c_str()); big when the value is outside the range of int
\* (-2147483648, the one such negative value in range, is counted as
\* outside: it is below every start a token can have).
strtol(s) ==
    LET i0   == SkipSpace(s, 1)
        neg  == i0 <= Len(s) /\ s[i0] = "-"
        i1   == IF i0 <= Len(s) /\ s[i0] \in {"+", "-"} THEN i0 + 1 ELSE i0
        d    == StrtolDigits(s, i1, 0, FALSE)
    IN  IF d.end = i1
        THEN [val |-> 0, big |-> FALSE, end |-> 1]
        ELSE [val |-> IF neg THEN 0 - d.val ELSE d.val, big |-> d.big,
              end |-> d.end]

\* safe_stoi, lines 216-236.
safe_stoi(str) ==
    IF str = <<>> THEN [ok |-> FALSE, result |-> 0]
    ELSE LET r == strtol(str)
         IN  IF r.end = 1 \/ r.end <= Len(str)
             THEN [ok |-> FALSE, result |-> 0]
             ELSE IF r.big THEN [ok |-> FALSE, result |-> 0]
             ELSE [ok |-> TRUE, result |-> r.val]

\* std::getline(iss, token, ',') until it fails: the pieces between the
\* commas; nothing is extracted after a final comma or from "".
RECURSIVE Getlines(_)
Getlines(s) ==
    IF s = <<>> THEN <<>>
    ELSE LET comma == Find(s, ",")
         IN  IF comma = 0 THEN <<s>>
             ELSE <<SubSeq(s, 1, comma - 1)>> \o Getlines(Substr(s, comma + 1))

\* Lines 255-257: for (int i = start; i <= end; ++i) cpus.push_back(i).
\* With end = INT_MAX the test never fails and ++i overflows a signed int.
RangeLoop(start, end) ==
    [cpus |-> [k \in 1..(end - start + 1) |-> start + k - 1],
     overflow |-> end = INT_MAX]

\* Lines 248-265: what one token adds to cpus.
ParseToken(token) ==
    LET dash_pos == Find(token, "-")
    IN  IF dash_pos # 0
        THEN LET start == safe_stoi(SubSeq(token, 1, dash_pos - 1))
                 end   == safe_stoi(Substr(token, dash_pos + 1))
             IN  IF start.ok /\ end.ok /\ start.result <= end.result
                 THEN RangeLoop(start.result, end.result)
                 ELSE [cpus |-> <<>>, overflow |-> FALSE]
        ELSE LET cpu == safe_stoi(token)
             IN  [cpus |-> IF cpu.ok THEN <<cpu.result>> ELSE <<>>,
                  overflow |-> FALSE]

RECURSIVE ParseTokens(_, _, _)
ParseTokens(tokens, k, acc) ==
    IF k > Len(tokens) THEN acc
    ELSE LET t == ParseToken(tokens[k])
         IN  ParseTokens(tokens, k + 1,
                         [cpus |-> acc.cpus \o t.cpus,
                          overflow |-> acc.overflow \/ t.overflow])

\* parse_cpu_list, lines 242-269: the list, and whether a range loop
\* overflowed on the way.
parse_cpu_list_of(str) ==
    ParseTokens(Getlines(str), 1, [cpus |-> <<>>, overflow |-> FALSE])

\* Tokens of the input lines: single numbers, ranges, the largest int and
\* the number after it, a range up to the largest int, and tokens with
\* letters, empty bounds, reversed bounds, white space and signs.
TokenSamples ==
    {<<"7">>, <<"2", "-", "4">>, <<"9", "-", "1", "0">>, <<"5", "-", "5">>,
     <<"0", "0", "3">>,
     <<"2", "1", "4", "7", "4", "8", "3", "6", "4", "7">>,
     <<"2", "1", "4", "7", "4", "8", "3", "6", "4", "8">>,
     <<"2", "1", "4", "7", "4", "8", "3", "6", "4", "6", "-",
       "2", "1", "4", "7", "4", "8", "3", "6", "4", "7">>,
     <<>>, <<"x">>, <<"3", "x">>, <<"-">>, <<"2", "-">>, <<"-", "3">>,
     <<"4", "-", "2">>, <<"1", "-", "x">>, <<" ">>, <<"7", " ">>,
     <<" ", "7">>, <<"+", "7">>, <<"0", "-", "-", "0">>}

\* The tokens joined by commas.
RECURSIVE Join(_)
Join(tokens) ==
    IF Len(tokens) = 0 THEN <<>>
    ELSE IF Len(tokens) = 1 THEN tokens[1]
    ELSE tokens[1] \o <<",">> \o Join(Tail(tokens))

\* The lines given to parse_cpu_list: up to MaxTokens tokens.
Lines ==
    UNION {{Join(ts) : ts \in [1..n -> TokenSamples]} : n \in 0..MaxTokens}

CpuListAbsent ==
    /\ cpu_mode = "absent"
    /\ cpu_line = <<>>
    /\ cpu_pc = "idle"
    /\ cpus = <<>>

CpuListInit ==
    /\ cpu_mode = "on"
    /\ cpu_line \in Lines
    /\ cpu_pc = "idle"
    /\ cpus = <<>>

\* One call of parse_cpu_list(cpu_line).  When a range loop has overflowed
\* the behaviour is undefined: the call returns as if the loop had ended
\* at INT_MAX, or it does not return (the loop goes on from INT_MIN).
parse_cpu_list ==
    /\ cpu_mode = "on"
    /\ cpu_pc = "idle"
    /\ LET r == parse_cpu_list_of(cpu_line)
       IN  /\ cpus' = r.cpus
           /\ \/ cpu_pc' = "returned"
              \/ r.overflow /\ cpu_pc' = "overflowed"
    /\ UNCHANGED <<cpu_mode, cpu_line, tsVars, thrVars, schedVars, notUtil>>

CpuListNext == parse_cpu_list

-----------------------------------------------------------------------------
(* ConfiguredThread (thread_utils.hpp) *)

ThreadObjects == 1..NumThreadObjects

Workers == 1..NumWorkers

\* A std::thread that is not joinable.
NoThread == 0

joinable(o) == thread_[o] # NoThread

ThreadAbsent ==
    /\ thr_mode = "absent"
    /\ thr_alive = [o \in ThreadObjects |-> FALSE]
    /\ thread_ = [o \in ThreadObjects |-> NoThread]
    /\ worker = [w \in Workers |-> "unstarted"]
    /\ thr_config = [w \in Workers |-> <<FALSE, FALSE, FALSE>>]
    /\ thr_terminated = FALSE

\* No ConfiguredThread object exists yet.
ThreadInit ==
    /\ thr_mode = "on"
    /\ thr_alive = [o \in ThreadObjects |-> FALSE]
    /\ thread_ = [o \in ThreadObjects |-> NoThread]
    /\ worker = [w \in Workers |-> "unstarted"]
    /\ thr_config = [w \in Workers |-> <<FALSE, FALSE, FALSE>>]
    /\ thr_terminated = FALSE

ThrRunning == thr_mode = "on" /\ ~thr_terminated

\* std::thread::join: waits for the worker and leaves the handle empty.
ThreadJoin(o) ==
    /\ worker' = [worker EXCEPT ![thread_[o]] = "joined"]
    /\ thread_' = [thread_ EXCEPT ![o] = NoThread]

\* Constructor, lines 278-284: the worker is launched by the member
\* initialiser; pin_to_cpu, set_thread_name and set_realtime_priority
\* follow and their results are dropped.
ConfiguredThreadCtor(o, w) ==
    /\ ThrRunning
    /\ ~thr_alive[o]
    /\ worker[w] = "unstarted"
    /\ thr_alive' = [thr_alive EXCEPT ![o] = TRUE]
    /\ thread_' = [thread_ EXCEPT ![o] = w]
    /\ worker' = [worker EXCEPT ![w] = "running"]
    /\ \E pinned \in BOOLEAN, named \in BOOLEAN, prioritised \in BOOLEAN :
          thr_config' = [thr_config EXCEPT ![w] =
                            <<pinned, named, prioritised>>]
    /\ UNCHANGED <<thr_mode, thr_terminated, tsVars, cpuVars, schedVars,
                   notUtil>>

\* join, lines 300-304.
join(o) ==
    /\ ThrRunning
    /\ thr_alive[o]
    /\ IF joinable(o) THEN ThreadJoin(o) ELSE UNCHANGED <<thread_, worker>>
    /\ UNCHANGED <<thr_mode, thr_alive, thr_config, thr_terminated, tsVars,
                   cpuVars, schedVars, notUtil>>

\* Destructor, lines 286-290, then ~std::thread on the empty handle.
ConfiguredThreadDtor(o) ==
    /\ ThrRunning
    /\ thr_alive[o]
    /\ IF joinable(o) THEN ThreadJoin(o) ELSE UNCHANGED <<thread_, worker>>
    /\ thr_alive' = [thr_alive EXCEPT ![o] = FALSE]
    /\ UNCHANGED <<thr_mode, thr_config, thr_terminated, tsVars, cpuVars,
                   schedVars, notUtil>>

\* Defaulted move constructor, line 297: std::thread(std::thread&&) takes
\* the handle and leaves the source empty.
MoveConstruct(o, src) ==
    /\ ThrRunning
    /\ ~thr_alive[o]
    /\ thr_alive[src]
    /\ thr_alive' = [thr_alive EXCEPT ![o] = TRUE]
    /\ thread_' = [thread_ EXCEPT ![o] = thread_[src], ![src] = NoThread]
    /\ UNCHANGED <<thr_mode, worker, thr_config, thr_terminated, tsVars,
                   cpuVars, schedVars, notUtil>>

\* Defaulted move assignment, line 298: std::thread::operator=(thread&&)
\* calls std::terminate() when the target is joinable, and otherwise takes
\* the handle of the source.
MoveAssign(o, src) ==
    /\ ThrRunning
    /\ thr_alive[o]
    /\ thr_alive[src]
    /\ IF joinable(o)
       THEN thr_terminated' = TRUE /\ UNCHANGED thread_
       ELSE /\ UNCHANGED thr_terminated
            /\ thread_' = IF o = src THEN thread_
                          ELSE [thread_ EXCEPT ![o] = thread_[src],
                                               ![src] = NoThread]
    /\ UNCHANGED <<thr_mode, thr_alive, worker, thr_config, tsVars, cpuVars,
                   schedVars, notUtil>>

ThreadNext ==
    \/ \E o \in ThreadObjects, w \in Workers : ConfiguredThreadCtor(o, w)
    \/ \E o \in ThreadObjects : join(o)
    \/ \E o \in ThreadObjects : ConfiguredThreadDtor(o)
    \/ \E o \in ThreadObjects, src \in ThreadObjects : MoveConstruct(o, src)
    \/ \E o \in ThreadObjects, src \in ThreadObjects : MoveAssign(o, src)

-----------------------------------------------------------------------------
(* ThreadUtils: CPU affinity and real-time priority (thread_utils.hpp).    *)
(* The affinity mask and the scheduling parameters of a thread are kept by *)
(* the operating system; pthread_setaffinity_np and pthread_setschedparam  *)
(* change them when they return 0 and leave them alone otherwise.          *)

\* The thread given as argument and the calling thread.
SchedThreads == {"thread", "current"}

\* What pthread_setaffinity_np / pthread_setschedparam may return: 0 or an
\* error number.
RcValues == {0, 1}

\* No call made yet.
NoSchedCall == [op |-> "none", on |-> "current", arg |-> 0, os_called |-> FALSE,
                rc |-> 0, ret |-> FALSE]

SchedCtor ==
    /\ cpu_affinity = [t \in SchedThreads |-> 0..(num_cpus - 1)]
    /\ sched_param = [t \in SchedThreads |-> <<"SCHED_OTHER", 0>>]
    /\ sched_last = NoSchedCall

SchedAbsent ==
    /\ sched_mode = "absent"
    /\ is_linux = FALSE
    /\ num_cpus = 1
    /\ SchedCtor

\* The build (#ifdef __linux__) and the number of online CPUs are fixed
\* for a run; every thread starts with the default attributes.
SchedInit ==
    /\ sched_mode = "on"
    /\ is_linux \in BOOLEAN
    /\ num_cpus \in 1..MaxCpus
    /\ SchedCtor

\* get_num_cpus, lines 173-179.
get_num_cpus == num_cpus

\* Values passed as cpu_id.
CpuIdArgs == {-1, 0, num_cpus - 1, num_cpus, num_cpus + 1, INT_MAX}

\* Values passed as priority.
PriorityArgs == {-1, 0, 1, 50, 99, 100, INT_MAX}

\* The range test of pin_to_cpu with > in place of >=.
CpuIdRejectedAbove(cpu_id) == cpu_id < 0 \/ cpu_id > get_num_cpus

\* Lines 34 and 57.
CpuIdRejected(cpu_id) == cpu_id < 0 \/ cpu_id >= get_num_cpus

\* Lines 83 and 104.
PriorityRejected(priority) == priority < 1 \/ priority > 99

\* A call returns false without calling the operating system.
SchedRefuse(op, t, arg) ==
    /\ sched_last' = [op |-> op, on |-> t, arg |-> arg, os_called |-> FALSE,
                      rc |-> 0, ret |-> FALSE]
    /\ UNCHANGED <<cpu_affinity, sched_param>>

\* Lines 31-49 (t = "thread": thread.native_handle()) and lines 54-72
\* (t = "current": pthread_self()).
PinThread(op, t, cpu_id) ==
    /\ sched_mode = "on"
    /\ IF ~is_linux \/ CpuIdRejected(cpu_id)
       THEN SchedRefuse(op, t, cpu_id)
       ELSE \E rc \in RcValues :
               /\ cpu_affinity' =
                     IF rc = 0 THEN [cpu_affinity EXCEPT ![t] = {cpu_id}]
                     ELSE cpu_affinity
               /\ sched_last' = [op |-> op, on |-> t, arg |-> cpu_id,
                                 os_called |-> TRUE, rc |-> rc,
                                 ret |-> (rc = 0)]
               /\ UNCHANGED sched_param
    /\ UNCHANGED <<sched_mode, is_linux, num_cpus>>
    /\ UNCHANGED <<tsVars, cpuVars, thrVars, notUtil>>

\* Lines 80-98 (t = "thread") and lines 101-119 (t = "current").
SetRealtime(op, t, priority) ==
    /\ sched_mode = "on"
    /\ IF ~is_linux \/ PriorityRejected(priority)
       THEN SchedRefuse(op, t, priority)
       ELSE \E rc \in RcValues :
               /\ sched_param' =
                     IF rc = 0
                     THEN [sched_param EXCEPT ![t] = <<"SCHED_FIFO", priority>>]
                     ELSE sched_param
               /\ sched_last' = [op |-> op, on |-> t, arg |-> priority,
                                 os_called |-> TRUE, rc |-> rc,
                                 ret |-> (rc = 0)]
               /\ UNCHANGED cpu_affinity
    /\ UNCHANGED <<sched_mode, is_linux, num_cpus>>
    /\ UNCHANGED <<tsVars, cpuVars, thrVars, notUtil>>

pin_to_cpu(cpu_id) == PinThread("pin_to_cpu", "thread", cpu_id)

pin_current_thread_to_cpu(cpu_id) ==
    PinThread("pin_current_thread_to_cpu", "current", cpu_id)

set_realtime_priority(priority) ==
    SetRealtime("set_realtime_priority", "thread", priority)

set_current_thread_realtime(priority) ==
    SetRealtime("set_current_thread_realtime", "current", priority)

SchedNext ==
    \/ \E cpu_id \in CpuIdArgs : pin_to_cpu(cpu_id)
    \/ \E cpu_id \in CpuIdArgs : pin_current_thread_to_cpu(cpu_id)
    \/ \E priority \in PriorityArgs : set_realtime_priority(priority)
    \/ \E priority \in PriorityArgs : set_current_thread_realtime(priority)

UtilAbsent ==
    TimestampAbsent /\ CpuListAbsent /\ ThreadAbsent /\ SchedAbsent

-----------------------------------------------------------------------------
(* Reference driver (src/main.cpp): producer_thread and consumer_thread    *)
(* share one CircularBuffer and the flag g_shutdown; main sets the flag    *)
(* and joins both threads.  The calls into the ring are the ring's own     *)
(* steps.  The pinning and naming of the threads, the statistics thread,   *)
(* the end-to-end latency histogram and the queue-full counter read and    *)
(* write nothing the two loops depend on and are not steps of the model.   *)

DrvThreads == {"producer", "consumer", "main"}

DriverCtor ==
    /\ g_shutdown = FALSE
    /\ drv_pc = [t \in DrvThreads |-> "loop"]
    /\ sequence = 0
    /\ processed = 0
    /\ last_sequence = 0
    /\ messages_received = 0
    /\ messages_processed = 0
    /\ sequence_gaps = 0
    /\ at_shutdown = <<>>

DriverAbsent ==
    /\ drv_mode = "absent"
    /\ DriverCtor

DrvGoto(t, label) == drv_pc' = [drv_pc EXCEPT ![t] = label]

\* A MarketEvent in the ring is represented by its sequence_number + 1, which
\* differs from the content of a slot never written.
EventOf(sequence_number) == sequence_number + 1

\* producer_thread with the loop condition of line 39 never false.
producer_ignore_shutdown ==
    /\ drv_pc["producer"] = "loop"
    /\ sequence < MaxEvents
    /\ sequence' = sequence + 1
    /\ DrvGoto("producer", "push")
    /\ UNCHANGED <<drv_mode, g_shutdown, processed, last_sequence,
                   messages_received, messages_processed, sequence_gaps,
                   at_shutdown>>
    /\ UNCHANGED <<ringVars, notDriver>>

\* producer_thread lines 39-49 and 68: load g_shutdown; set => leave the loop
\* and return; clear => build the next event (sequence++).
producer_check_shutdown ==
    /\ drv_pc["producer"] = "loop"
    /\ IF g_shutdown
       THEN /\ DrvGoto("producer", "exited")
            /\ UNCHANGED sequence
       ELSE /\ sequence < MaxEvents
            /\ sequence' = sequence + 1
            /\ DrvGoto("producer", "push")
    /\ UNCHANGED <<drv_mode, g_shutdown, processed, last_sequence,
                   messages_received, messages_processed, sequence_gaps,
                   at_shutdown>>
    /\ UNCHANGED <<ringVars, notDriver>>

\* producer_thread line 52: buffer.try_push(event) is called; its first step
\* (circular_buffer.hpp lines 50-51) loads write_index_.
producer_try_push ==
    /\ drv_pc["producer"] = "push"
    /\ ring_pc["producer"] = "idle"
    /\ push_item' = EventOf(sequence - 1)
    /\ current_write' = write_index_
    /\ next_write' = increment(write_index_)
    /\ RingGoto("producer", "push_check_full")
    /\ DrvGoto("producer", "in_push")
    /\ UNCHANGED <<ring_mode, write_index_, read_index_, buffer_, current_read,
                   pop_item, size_write, size_ret, pushed, popped, push_calls,
                   ring_last, ringMore, ringMarks>>
    /\ UNCHANGED <<drv_mode, g_shutdown, sequence, processed, last_sequence,
                   messages_received, messages_processed, sequence_gaps,
                   at_shutdown>>
    /\ UNCHANGED notDriver

\* try_push returned true: it stored next_write into write_index_
\* (circular_buffer.hpp line 62), which only the producer writes.
PushAccepted == write_index_ = next_write

\* producer_thread lines 52 and 60-65: try_push has returned; true => leave
\* the retry loop, record_message_received() and go round the outer loop
\* (sleep_for only delays the thread); false => line 53.
producer_push_returned ==
    /\ drv_pc["producer"] = "in_push"
    /\ ring_pc["producer"] = "idle"
    /\ IF PushAccepted
       THEN /\ messages_received' = messages_received + 1
            /\ DrvGoto("producer", "loop")
       ELSE /\ DrvGoto("producer", "full")
            /\ UNCHANGED messages_received
    /\ UNCHANGED <<drv_mode, g_shutdown, sequence, processed, last_sequence,
                   messages_processed, sequence_gaps, at_shutdown>>
    /\ UNCHANGED <<ringVars, notDriver>>

\* producer_thread lines 53-58: the ring was full; load g_shutdown; set =>
\* return; clear => try_push again.
producer_full_check_shutdown ==
    /\ drv_pc["producer"] = "full"
    /\ IF g_shutdown
       THEN DrvGoto("producer", "exited")
       ELSE DrvGoto("producer", "push")
    /\ UNCHANGED <<drv_mode, g_shutdown, sequence, processed, last_sequence,
                   messages_received, messages_processed, sequence_gaps,
                   at_shutdown>>
    /\ UNCHANGED <<ringVars, notDriver>>

\* consumer_thread line 83, first operand: load g_shutdown; clear => loop
\* body; set => evaluate !buffer.empty().
consumer_check_shutdown ==
    /\ drv_pc["consumer"] = "loop"
    /\ IF g_shutdown
       THEN DrvGoto("consumer", "empty")
       ELSE DrvGoto("consumer", "pop")
    /\ UNCHANGED <<drv_mode, g_shutdown, sequence, processed, last_sequence,
                   messages_received, messages_processed, sequence_gaps,
                   at_shutdown>>
    /\ UNCHANGED <<ringVars, notDriver>>

\* consumer_thread line 83, second operand and line 108: buffer.empty()
\* (circular_buffer.hpp lines 119-122; read_index_ is the consumer's own
\* index, the load of write_index_ is the step); empty => leave the loop and
\* return.
consumer_check_empty ==
    /\ drv_pc["consumer"] = "empty"
    /\ IF emptyOf(read_index_, write_index_)
       THEN DrvGoto("consumer", "exited")
       ELSE DrvGoto("consumer", "pop")
    /\ UNCHANGED <<drv_mode, g_shutdown, sequence, processed, last_sequence,
                   messages_received, messages_processed, sequence_gaps,
                   at_shutdown>>
    /\ UNCHANGED <<ringVars, notDriver>>

\* consumer_thread line 86: buffer.try_pop(event) is called; its first step
\* (circular_buffer.hpp line 73) loads read_index_.
consumer_try_pop ==
    /\ drv_pc["consumer"] = "pop"
    /\ ring_pc["consumer"] = "idle"
    /\ current_read' = read_index_
    /\ RingGoto("consumer", "pop_check_empty")
    /\ DrvGoto("consumer", "in_pop")
    /\ UNCHANGED <<ring_mode, write_index_, read_index_, buffer_, current_write,
                   next_write, push_item, pop_item, size_write, size_ret,
                   pushed, popped, push_calls, ring_last, ringMore, ringMarks>>
    /\ UNCHANGED <<drv_mode, g_shutdown, sequence, processed, last_sequence,
                   messages_received, messages_processed, sequence_gaps,
                   at_shutdown>>
    /\ UNCHANGED notDriver

\* try_pop returned true: it stored increment(current_read) into read_index_
\* (circular_buffer.hpp line 84), which only the consumer writes.
PopReturned == read_index_ = increment(current_read)

\* consumer_thread lines 86-105: try_pop has returned; true => sequence-gap
\* test, last_sequence, record_message_processed(), processed++; false =>
\* cpu_pause(); then the loop condition again.
consumer_pop_returned ==
    /\ drv_pc["consumer"] = "in_pop"
    /\ ring_pc["consumer"] = "idle"
    /\ IF PopReturned
       THEN /\ sequence_gaps' =
                  IF pop_item - 1 # last_sequence + 1 /\ processed > 0
                  THEN sequence_gaps + 1 ELSE sequence_gaps
            /\ last_sequence' = pop_item - 1
            /\ messages_processed' = messages_processed + 1
            /\ processed' = processed + 1
       ELSE UNCHANGED <<sequence_gaps, last_sequence, messages_processed,
                        processed>>
    /\ DrvGoto("consumer", "loop")
    /\ UNCHANGED <<drv_mode, g_shutdown, sequence, messages_received,
                   at_shutdown>>
    /\ UNCHANGED <<ringVars, notDriver>>

\* main line 271: g_shutdown.store(true).
main_signal_shutdown ==
    /\ drv_pc["main"] = "loop"
    /\ g_shutdown' = TRUE
    /\ at_shutdown' = <<RingHeld, Len(pushed), Len(popped)>>
    /\ DrvGoto("main", "joining")
    /\ UNCHANGED <<drv_mode, sequence, processed, last_sequence,
                   messages_received, messages_processed, sequence_gaps>>
    /\ UNCHANGED <<ringVars, notDriver>>

\* main lines 274-275: producer.join(); consumer.join() return once both
\* thread functions have returned.
main_join ==
    /\ drv_pc["main"] = "joining"
    /\ drv_pc["producer"] = "exited"
    /\ drv_pc["consumer"] = "exited"
    /\ DrvGoto("main", "joined")
    /\ UNCHANGED <<drv_mode, g_shutdown, sequence, processed, last_sequence,
                   messages_received, messages_processed, sequence_gaps,
                   at_shutdown>>
    /\ UNCHANGED <<ringVars, notDriver>>

\* The steps of producer_thread, inside try_push included.
ProducerStep ==
    \/ producer_check_shutdown
    \/ producer_try_push
    \/ try_push_check_full
    \/ try_push_write_slot
    \/ try_push_publish
    \/ producer_push_returned
    \/ producer_full_check_shutdown

\* The steps of consumer_thread, inside try_pop included.
ConsumerStep ==
    \/ consumer_check_shutdown
    \/ consumer_check_empty
    \/ consumer_try_pop
    \/ try_pop_check_empty
    \/ try_pop_read_slot
    \/ try_pop_publish
    \/ consumer_pop_returned

DriverNext ==
    \/ ProducerStep
    \/ ConsumerStep
    \/ main_signal_shutdown
    \/ main_join

\* main lines 258-259: the ring is constructed and both threads are started.
DriverInit ==
    /\ drv_mode = "on"
    /\ DriverCtor
    /\ ring_mode = "driver"
    /\ RingCtor

\* Both threads are scheduled again and again.
DriverFairness == WF_vars(ProducerStep) /\ WF_vars(ConsumerStep)

-----------------------------------------------------------------------------
(* Specifications: one component runs, the others are absent *)

InitRing == RingInit /\ PoolAbsent /\ QueueAbsent /\ HistAbsent /\ UtilAbsent
    /\ DriverAbsent

InitRingSeq == RingSeqInit /\ PoolAbsent /\ QueueAbsent /\ HistAbsent /\ UtilAbsent
    /\ DriverAbsent

InitPool == PoolInit /\ RingAbsent /\ QueueAbsent /\ HistAbsent /\ UtilAbsent
    /\ DriverAbsent

InitPoolSeq == PoolSeqInit /\ RingAbsent /\ QueueAbsent /\ HistAbsent /\ UtilAbsent
    /\ DriverAbsent

InitQueue == QueueInit /\ RingAbsent /\ PoolAbsent /\ HistAbsent /\ UtilAbsent
    /\ DriverAbsent

InitQueueSeq == QueueSeqInit /\ RingAbsent /\ PoolAbsent /\ HistAbsent /\ UtilAbsent
    /\ DriverAbsent

InitQueueLive == QueueLiveInit /\ RingAbsent /\ PoolAbsent /\ HistAbsent /\ UtilAbsent
    /\ DriverAbsent

InitHist == HistInit /\ RingAbsent /\ PoolAbsent /\ QueueAbsent /\ UtilAbsent
    /\ DriverAbsent

InitHistSeq == HistSeqInit /\ RingAbsent /\ PoolAbsent /\ QueueAbsent /\ UtilAbsent
    /\ DriverAbsent

SpecRing == InitRing /\ [][RingNext]_vars

SpecRingSeq == InitRingSeq /\ [][RingNext]_vars

SpecPool == InitPool /\ [][PoolNext]_vars

SpecPoolSeq == InitPoolSeq /\ [][PoolNext]_vars

SpecQueue == InitQueue /\ [][QueueNext]_vars

SpecQueueSeq == InitQueueSeq /\ [][QueueNext]_vars

SpecRingPeek == InitRing /\ [][RingPeekNext]_vars

SpecRingReset == InitRingSeq /\ [][RingResetNext]_vars

SpecRingQuiescent == InitRing /\ [][RingQuiescentNext]_vars

SpecRingMarks == InitRingSeq /\ [][RingMarksNext]_vars

SpecQueueFair == InitQueueLive /\ [][QueueNext]_vars /\ QueueFairness

InitQueueConsume ==
    QueueConsumeInit /\ RingAbsent /\ PoolAbsent /\ HistAbsent /\ UtilAbsent
    /\ DriverAbsent

SpecQueueConsume == InitQueueConsume /\ [][QueueNext]_vars

InitQueueSize ==
    QueueSizeInit /\ RingAbsent /\ PoolAbsent /\ HistAbsent /\ UtilAbsent
    /\ DriverAbsent

SpecQueueSize == InitQueueSize /\ [][QueueSizeNext]_vars

SpecQueueLockFree ==
    InitQueueLive /\ [][QueueNext]_vars /\ QueueFairnessInCall

SpecQueueBulk == InitQueueSeq /\ [][QueueBulkNext]_vars

SpecHist == InitHist /\ [][HistNext]_vars

SpecHistSeq == InitHistSeq /\ [][HistSeqNext]_vars

InitHistEdges ==
    HistEdgesInit /\ RingAbsent /\ PoolAbsent /\ QueueAbsent /\ UtilAbsent
    /\ DriverAbsent

SpecHistEdges == InitHistEdges /\ [][HistNext]_vars

SpecHistReset == InitHist /\ [][HistSeqNext]_vars

InitSched ==
    /\ SchedInit /\ TimestampAbsent /\ CpuListAbsent /\ ThreadAbsent
    /\ RingAbsent /\ PoolAbsent /\ QueueAbsent /\ HistAbsent
    /\ DriverAbsent

SpecSched == InitSched /\ [][SchedNext]_vars

InitDriver ==
    /\ DriverInit
    /\ PoolAbsent /\ QueueAbsent /\ HistAbsent /\ UtilAbsent

SpecDriver == InitDriver /\ [][DriverNext]_vars

SpecDriverFair == InitDriver /\ [][DriverNext]_vars /\ DriverFairness

InitTimestamp ==
    /\ TimestampInit /\ CpuListAbsent /\ ThreadAbsent /\ SchedAbsent
    /\ RingAbsent /\ PoolAbsent /\ QueueAbsent /\ HistAbsent
    /\ DriverAbsent

SpecTimestamp == InitTimestamp /\ [][TimestampNext]_vars

InitCpuList ==
    /\ CpuListInit /\ TimestampAbsent /\ ThreadAbsent /\ SchedAbsent
    /\ RingAbsent /\ PoolAbsent /\ QueueAbsent /\ HistAbsent
    /\ DriverAbsent

SpecCpuList == InitCpuList /\ [][CpuListNext]_vars

InitThread ==
    /\ ThreadInit /\ TimestampAbsent /\ CpuListAbsent /\ SchedAbsent
    /\ RingAbsent /\ PoolAbsent /\ QueueAbsent /\ HistAbsent
    /\ DriverAbsent

SpecThread == InitThread /\ [][ThreadNext]_vars

-----------------------------------------------------------------------------
(* Properties of the CircularBuffer *)

\* Slot of the k-th accepted push: every accepted push advances the write
\* index by one from 0.
SlotOfPush(k) == (k - 1) % Capacity

\* C2: with one producer and one consumer interleaved step by step, the
\* k-th successful try_pop returns the value of the k-th successful
\* try_push; the consumer reads only a slot whose write is published and
\* finished, and the producer writes only a slot that holds no unread item
\* and that the consumer is not reading.
C2_SpscFifoNoRace ==
    /\ IsPrefix(popped, pushed)
    /\ ring_pc["consumer"] = "pop_read_slot" =>
          /\ Len(popped) < Len(pushed)
          /\ buffer_[current_read] = pushed[Len(popped) + 1]
          /\ ~(ring_pc["producer"] = "push_write_slot"
               /\ current_write = current_read)
    /\ ring_pc["consumer"] = "pop_publish" =>
          /\ Len(popped) < Len(pushed)
          /\ pop_item = pushed[Len(popped) + 1]
    /\ ring_pc["producer"] = "push_write_slot" =>
          \A k \in (Len(popped) + 1)..Len(pushed) :
              SlotOfPush(k) # current_write

\* C2 witness: the consumer is about to read a slot while the producer is
\* about to write another one, after the indices have wrapped.
C2_Witness ==
    /\ ring_pc["consumer"] = "pop_read_slot"
    /\ ring_pc["producer"] = "push_write_slot"
    /\ Len(popped) >= Capacity
    /\ RingHeld = Capacity - 2

\* C4: single-threaded, the popped values are a prefix of the accepted
\* values, in order, and equal them whenever the ring is drained.
C4_SeqFifoPrefix ==
    /\ Len(popped) <= Len(pushed)
    /\ popped = SubSeq(pushed, 1, Len(popped))
    /\ (write_index_ = read_index_) => popped = pushed

\* C4 witness: the ring is drained after the indices wrapped twice.
C4_Witness ==
    /\ \A t \in RingThreads : ring_pc[t] = "idle"
    /\ write_index_ = read_index_
    /\ Len(popped) >= 2 * Capacity
    /\ popped = pushed

\* C5: single-threaded, try_push returns false exactly when N-1 items are
\* held, try_pop returns false exactly when none is, and the ring never
\* holds more than N-1 items.
C5_UsableCapacity ==
    /\ RingHeld \in 0..(Capacity - 1)
    /\ ring_last.op = "push" =>
          (ring_last.ret = FALSE <=> ring_last.held = Capacity - 1)
    /\ ring_last.op = "pop" =>
          (ring_last.ret = FALSE <=> ring_last.held = 0)

\* C5 witness (scenario S1): N-1 pushes accepted, the N-th refused, N-1
\* pops in order, and the next pop refused.
C5_Witness ==
    /\ push_calls = Capacity
    /\ Len(pushed) = Capacity - 1
    /\ popped = pushed
    /\ ring_last = [op |-> "pop", ret |-> FALSE, held |-> 0]

\* C6: size() never returns a value outside [0, N-1], however many producer
\* and consumer steps separate its two loads.
C6_SizeInRange ==
    size_ret # -1 => size_ret \in 0..(Capacity - 1)

\* C6 witness: size() returned a value computed from a stale write index
\* that the read index has since passed.
C6_Witness ==
    /\ ring_pc["observer"] = "idle"
    /\ size_ret = Capacity - 1
    /\ size_write = 0
    /\ RingHeld = 0
    /\ Len(popped) > 0

-----------------------------------------------------------------------------
(* Properties of the MemoryPool *)

\* C3: under concurrent allocate() / deallocate() without double free, no
\* slot is held by two callers at once and no held slot is linked into the
\* free list.
C3_ExclusiveOwnership ==
    /\ \A t, u \in PoolThreads :
          t # u => pool_held[t] \cap pool_held[u] = {}
    /\ PoolHeldSet \cap PoolFreeSet = {}

\* C12: used by one thread, the pool hands out every slot exactly once
\* before allocate() returns null: the handles held are pairwise distinct and
\* non-overlapping, each starts at a cache-line-aligned address inside the
\* backing region, allocate() fails only when all NumSlots slots are held,
\* and every slot not held is on the free list, so that after all handles
\* are returned NumSlots allocations succeed again.
C12_SeqAllocate ==
    pool_mode = "seq" =>
        /\ \A s \in PoolHeldSet :
              /\ get_slot(s) % CACHE_LINE_SIZE = 0
              /\ get_slot(s) >= pool_raw
              /\ get_slot(s) + pool_sizeof <= pool_raw + total_size_
        /\ \A s, u \in PoolHeldSet :
              s # u => \/ get_slot(s) + pool_sizeof <= get_slot(u)
                       \/ get_slot(u) + pool_sizeof <= get_slot(s)
        /\ \A t, u \in PoolThreads :
              t # u => pool_held[t] \cap pool_held[u] = {}
        /\ PoolIdle =>
              /\ PoolHeldSet \cap PoolFreeSet = {}
              /\ PoolHeldSet \cup PoolFreeSet = Slots
              /\ Len(PoolFreeChain) = NumSlots - Cardinality(PoolHeldSet)
              /\ (pool_last.op = "allocate" /\ ~pool_last.ok) =>
                     Cardinality(PoolHeldSet) = NumSlots
              /\ Cardinality(PoolHeldSet) = NumSlots => pool_free_list_ = NULL

\* allocate() has just returned null with every slot held, after slots had
\* been returned and handed out again, in a pool whose malloc result was not
\* cache-line aligned.
C12_Witness ==
    /\ pool_mode = "seq"
    /\ PoolIdle
    /\ pool_last = [op |-> "allocate", ok |-> FALSE]
    /\ Cardinality(PoolHeldSet) = NumSlots
    /\ slot_next[0] # NULL
    /\ ~use_huge_pages_
    /\ pool_raw % CACHE_LINE_SIZE # 0

\* Number of times slot s occurs on the chain linked from free_list_.
TimesOnFreeList(s) ==
    Cardinality({k \in 1..Len(PoolFreeChain) : PoolFreeChain[k] = s})

\* Number of handles handed out by allocate() and not yet given back.
Outstanding ==
    Cardinality({<<t, s>> \in PoolThreads \X Slots : s \in pool_held[t]})

\* C28: whenever no allocate() or deallocate() call is in progress, every
\* slot is either held by exactly one caller or linked exactly once into the
\* free list, and available() equals capacity() minus the number of
\* outstanding handles (so it equals capacity() when none is outstanding).
C28_QuiescentAccounting ==
    PoolIdle =>
        /\ \A s \in Slots :
              \/ /\ Cardinality({t \in PoolThreads : s \in pool_held[t]}) = 1
                 /\ TimesOnFreeList(s) = 0
              \/ /\ s \notin PoolHeldSet
                 /\ TimesOnFreeList(s) = 1
        /\ available = capacity - Outstanding

-----------------------------------------------------------------------------
(* Properties of the MPMCQueue *)

SeqRange(q) == {q[i] : i \in DOMAIN q}

NoDuplicates(q) == \A i, j \in DOMAIN q : i # j => q[i] # q[j]

\* No call on the queue has started since its construction.
QueueFresh == QueueIdle /\ q_last.op = "none"

\* C7: immediately after construction and before any enqueue, head and tail
\* reference the same live sentinel node of the pool, its next link is null,
\* empty() is true, and the free list holds exactly the other MaxNodes - 1
\* nodes.
C7_AfterConstruction ==
    (q_mode # "absent" /\ QueueFresh) =>
        /\ ~q_crashed
        /\ head_ \in Nodes
        /\ tail_ = head_
        /\ node_next[head_] = NULL
        /\ empty
        /\ SeqRange(QFreeChain) = Nodes \ {head_}
        /\ Len(QFreeChain) = MaxNodes - 1

\* C8: in a single-threaded run, successful try_dequeue calls return the
\* enqueued values in the order they were enqueued, try_dequeue returns false
\* exactly when no item is queued, and empty() is true exactly when no item is
\* queued.
C8_SeqFifo ==
    (q_mode = "seq" /\ ~q_crashed) =>
        /\ IsPrefix(deq_hist, enq_hist)
        /\ q_last.op = "deq" => (q_last.ret = FALSE <=> q_last.queued = 0)
        /\ QueueIdle => (empty <=> Queued = 0)

\* A try_enqueue call that finds the pool exhausted: the call and its return.
FailedEnqueueStep ==
    \E t \in Producers :
        \/ q_pc[t] = "idle" /\ q_pc'[t] = "alloc_load"
        \/ q_pc[t] = "alloc_load" /\ q_pc'[t] = "idle"

\* C9: used by one thread, try_enqueue returns false exactly when
\* MaxNodes - 1 items are queued, the queue never holds more, no node is
\* leaked (every node is the sentinel, queued or free), and a failed
\* try_enqueue leaves head, tail, the linked sequence and the free list
\* unchanged.
C9_SeqPoolExhausted ==
    /\ [](q_mode = "seq" /\ ~q_crashed =>
            /\ q_last.op = "enq" =>
                   (q_last.ret = FALSE <=> q_last.queued = MaxNodes - 1)
            /\ Queued <= MaxNodes - 1
            /\ QueueIdle =>
                   /\ Len(QFreeChain) = MaxNodes - 1 - Queued
                   /\ SeqRange(QFreeChain) \cup SeqRange(QLinkedChain) = Nodes)
    /\ [][q_mode = "seq" /\ FailedEnqueueStep =>
            UNCHANGED <<head_, tail_, free_list_, node_next>>]_vars

\* C1: under any interleaving of producers and consumers, every dequeued
\* value was enqueued, no enqueued item is dequeued twice, and whenever all
\* calls have returned and the queue is empty the dequeued items are exactly
\* the enqueued ones.
C1_NoLossNoDuplicate ==
    (q_mode = "conc" /\ ~q_crashed) =>
        /\ SeqRange(deq_hist) \subseteq SeqRange(enq_hist)
        /\ NoDuplicates(deq_hist)
        /\ (QueueIdle /\ empty) => SeqRange(deq_hist) = SeqRange(enq_hist)

\* Items a, b enqueued by the same producer, a by the earlier call.
SameProducerInOrder(a, b) == a \div 10 = b \div 10 /\ a < b

\* C10: if a producer enqueues a and later b, no dequeue of b takes effect
\* before the dequeue of a.
C10_ProducerOrder ==
    (q_mode = "conc" /\ ~q_crashed) =>
        \A i, j \in DOMAIN deq_hist :
            (i < j /\ deq_hist[j] \in SeqRange(enq_hist)
                   /\ deq_hist[i] \in SeqRange(enq_hist)) =>
                ~SameProducerInOrder(deq_hist[j], deq_hist[i])

\* C11: a single-threaded try_dequeue_bulk(items, max_count) on a queue
\* holding k items returns min(k, max_count), writes exactly that many items
\* to items[0 .. count-1] in FIFO order, removes exactly those items, and
\* writes no other element of the array.
C11_BulkDequeue ==
    (q_mode = "seq" /\ ~q_crashed /\ QueueIdle /\ q_last.op = "bulk") =>
        LET b == q_bulk_last
            items == q_items[b.by]
        IN  /\ b.count = Min(b.queued, b.max)
            /\ Len(deq_hist) = b.taken + b.count
            /\ Len(deq_hist) <= Len(enq_hist)
            /\ \A i \in 0..(b.count - 1) : items[i] = enq_hist[b.taken + i + 1]
            /\ \A i \in ItemSlots : i >= b.count => items[i] = Untouched
            /\ Queued = b.queued - b.count

\* A bulk call took several items and stopped on an empty queue.
C11_Witness ==
    /\ q_mode = "seq" /\ ~q_crashed /\ QueueIdle /\ q_last.op = "bulk"
    /\ q_bulk_last.count = 2
    /\ q_bulk_last.max = 3
    /\ q_bulk_last.queued = 2

\* C20: try_enqueue is wait-free: while the calling thread keeps taking
\* steps, every invocation of try_enqueue returns, however the other threads
\* are scheduled.
C20_EnqueueWaitFree ==
    \A t \in Producers : (q_pc[t] # "idle") ~> (q_pc[t] = "idle")

-----------------------------------------------------------------------------
(* CircularBuffer: try_peek and reset *)

\* The consumer takes a step of try_peek.
PeekStep ==
    /\ ring_pc'["consumer"] # ring_pc["consumer"]
    /\ \/ ring_pc'["consumer"] \in {"peek_check_empty", "peek_read_slot"}
       \/ ring_pc["consumer"] \in {"peek_check_empty", "peek_read_slot"}

\* C18: try_peek succeeds iff the ring is non-empty; it yields the value the
\* next try_pop yields, and the same value as the peeks before it; it leaves
\* read_index_, write_index_ and every slot unchanged, and so size().
C18_PeekFront ==
    /\ [](ring_last.op = "peek" => (ring_last.ret <=> ring_last.held > 0))
    /\ []((ring_pc["consumer"] = "pop_publish" /\ peeked # Unwritten) =>
              pop_item = peeked)
    /\ [][PeekStep =>
             /\ UNCHANGED <<write_index_, read_index_, buffer_>>
             /\ sizeOf(write_index_', read_index_')
                    = sizeOf(write_index_, read_index_)
             /\ (ring_pc["consumer"] = "peek_read_slot" /\ peeked # Unwritten)
                    => peek_item' = peeked]_vars

\* try_pop is about to return the value a try_peek returned, after the
\* indices have wrapped.
C18_Witness ==
    /\ ring_pc["consumer"] = "pop_publish"
    /\ peeked # Unwritten
    /\ pop_item = peeked
    /\ Len(popped) >= Capacity

\* C19: reset(), called while no other call is in progress, leaves the ring
\* empty: empty() is true and size() is 0 right after it; afterwards try_pop
\* fails exactly when nothing pushed since is held, try_push fails exactly
\* when Capacity - 1 values pushed since are held, and the values popped are
\* the values pushed since, in order.
C19_ResetEmpties ==
    ring_resets > 0 =>
        /\ ring_last.op = "reset" =>
               /\ emptyOf(read_index_, write_index_)
               /\ sizeOf(write_index_, read_index_) = 0
        /\ ring_last.op = "pop" => (ring_last.ret <=> ring_last.held > 0)
        /\ ring_last.op = "push" =>
               (ring_last.ret <=> ring_last.held < Capacity - 1)
        /\ IsPrefix(popped, pushed)

\* After a reset, Capacity - 1 pushes have succeeded and the ring is full
\* again.
C19_Witness ==
    /\ ring_resets > 0
    /\ Len(pushed) = Capacity - 1
    /\ Len(popped) = 0
    /\ ring_last = [op |-> "push", ret |-> FALSE, held |-> Capacity - 1]
    /\ push_calls > 2 * Capacity

-----------------------------------------------------------------------------
(* LatencyHistogram properties *)

\* No record call is in progress.
HistQuiescent == HistIdle

\* 1 when x + y does not fit in 64 bits, else 0.
U64Carry(x, y) == IF U64Less(U64Add(x, y), x) THEN 1 ELSE 0

\* The sum of the samples of s as carry * 2^64 + low.
RECURSIVE SumOf(_)
SumOf(s) ==
    IF s = <<>> THEN [carry |-> 0, low |-> U64(0)]
    ELSE LET r == SumOf(Tail(s))
         IN  [carry |-> r.carry + U64Carry(r.low, Head(s)),
              low   |-> U64Add(r.low, Head(s))]

\* floor((carry * 2^64 + x) / d) as five limbs.
WideDivSmall(carry, x, d) ==
    LET q0 == carry \div d
        r0 == carry % d
        q1 == (r0 * LimbBase + x[1]) \div d
        r1 == (r0 * LimbBase + x[1]) % d
        q2 == (r1 * LimbBase + x[2]) \div d
        r2 == (r1 * LimbBase + x[2]) % d
        q3 == (r2 * LimbBase + x[3]) \div d
        r3 == (r2 * LimbBase + x[3]) % d
        q4 == (r3 * LimbBase + x[4]) \div d
    IN  <<q0, q1, q2, q3, q4>>

SamplesOf(s) == {s[i] : i \in 1..Len(s)}

MinOf(s) == CHOOSE x \in SamplesOf(s) : \A y \in SamplesOf(s) : U64LessEq(x, y)

MaxOf(s) == CHOOSE x \in SamplesOf(s) : \A y \in SamplesOf(s) : U64LessEq(y, x)

\* C13 as stated: after n >= 1 record calls have all completed, sequentially
\* or interleaved, count() is n, min() and max() are the least and greatest
\* sample, the accumulated sum is the sum of the samples, and mean() is
\* floor(sum / n).
C13_RecordTotals ==
    (HistQuiescent /\ Len(recorded) >= 1) =>
        /\ count = Len(recorded)
        /\ min = MinOf(recorded)
        /\ max = MaxOf(recorded)
        /\ SumOf(recorded).carry = 0
        /\ sum_ = SumOf(recorded).low
        /\ <<0>> \o mean =
              WideDivSmall(SumOf(recorded).carry, SumOf(recorded).low,
                           Len(recorded))

\* C13 amended: after n >= 1 record calls have all completed, sequentially or
\* interleaved, count() is n, min() and max() are the least and greatest
\* sample, the accumulated sum is the sum of the samples modulo 2^64, and
\* mean() is floor((sum mod 2^64) / n).
C13_RecordTotalsMod64 ==
    (HistQuiescent /\ Len(recorded) >= 1) =>
        /\ count = Len(recorded)
        /\ min = MinOf(recorded)
        /\ max = MaxOf(recorded)
        /\ sum_ = SumOf(recorded).low
        /\ mean = U64DivSmall(SumOf(recorded).low, Len(recorded))

\* Concurrent recording of MaxRecords samples, not all equal, has completed.
C13_Witness ==
    /\ hist_mode = "conc"
    /\ HistQuiescent
    /\ Len(recorded) = MaxRecords
    /\ U64Less(min, max)

\* floor(log2(x)) for a 64-bit x >= 1.
FloorLog2(x) ==
    CHOOSE k \in 0..63 :
        /\ U64LessEq(U64Pow2(k), x)
        /\ k < 63 => U64Less(x, U64Pow2(k + 1))

\* max(0, floor(log2(ns / 1000))) clamped to NUM_BUCKETS - 1.
StatedBucket(ns) ==
    IF U64Less(ns, U64(1000)) THEN 0
    ELSE Min(FloorLog2(U64DivSmall(ns, 1000)), NUM_BUCKETS - 1)

\* 0 below 1000 ns, else floor(log2(floor(ns / 1000))) + 1 clamped to
\* NUM_BUCKETS - 1.
BitLengthBucket(ns) ==
    IF U64Less(ns, U64(1000)) THEN 0
    ELSE Min(FloorLog2(U64DivSmall(ns, 1000)) + 1, NUM_BUCKETS - 1)

\* Thread t takes the first step of record in this step.
RecordStarts(t) == hist_pc[t] = "idle" /\ hist_pc'[t] = "record_total"

Steps == 0..PercentileSteps

\* C15: for any contents of the histogram and p <= q in (0, 1],
\* get_percentile(p) <= get_percentile(q); and p50 <= p99 <= p999 <= p9999.
C15_PercentileMonotone ==
    /\ \A k1, k2 \in Steps \ {0} :
          k1 <= k2 =>
              U64LessEq(get_percentile(k1, PercentileSteps),
                        get_percentile(k2, PercentileSteps))
    /\ U64LessEq(p50, p99)
    /\ U64LessEq(p99, p999)
    /\ U64LessEq(p999, p9999)

\* Contents for which the percentile function is not constant.
C15_Witness ==
    /\ HistIdle
    /\ U64Less(p50, p99)
    /\ U64Less(get_percentile(1, PercentileSteps),
               get_percentile(PercentileSteps, PercentileSteps))

\* 2^b microseconds in nanoseconds.
BucketBound(b) == U64MulSmall(U64Pow2(b), 1000)

\* Bucket 0 holds the samples below 1 us, bucket b >= 1 the samples from
\* 2^(b-1) us up to, not including, 2^b us, the top bucket all larger ones.
BucketLower(b) == IF b = 0 THEN U64(0) ELSE BucketBound(b - 1)

ContainingBucket(v) ==
    CHOOSE b \in Buckets :
        /\ U64LessEq(BucketLower(b), v)
        /\ b < NUM_BUCKETS - 1 => U64Less(v, BucketLower(b + 1))

\* x lies between the bounds of bucket b, both included.
WithinBucket(x, b) ==
    /\ U64LessEq(BucketLower(b), x)
    /\ b < NUM_BUCKETS - 1 => U64LessEq(x, BucketBound(b))

\* All samples recorded so far are equal, and there is at least one.
AllSame ==
    /\ HistIdle
    /\ Len(recorded) >= 1
    /\ \A i \in 1..Len(recorded) : recorded[i] = recorded[1]

\* C16 as stated: when all n >= 1 samples have the same value v, p50(),
\* p99() and mean() lie within the range of the bucket containing v, and
\* min() = v, max() = v, count() = n.
C16_SameValueInBucket ==
    AllSame =>
        LET v == recorded[1]
            b == ContainingBucket(v)
        IN  /\ WithinBucket(p50, b)
            /\ WithinBucket(p99, b)
            /\ WithinBucket(mean, b)
            /\ min = v
            /\ max = v
            /\ count = Len(recorded)

\* C16 amended: when all n >= 1 samples have the same value v, min() = v,
\* max() = v and count() = n; mean() lies within the range of the bucket
\* containing v if n * v < 2^64; p50() and p99() lie within it if n >= 2.
C16_SameValueStats ==
    AllSame =>
        LET v == recorded[1]
            b == ContainingBucket(v)
        IN  /\ min = v
            /\ max = v
            /\ count = Len(recorded)
            /\ SumOf(recorded).carry = 0 => WithinBucket(mean, b)
            /\ Len(recorded) >= 2 =>
                   WithinBucket(p50, b) /\ WithinBucket(p99, b)

\* MaxRecords samples of 1500 ns have been recorded.
C16_Witness ==
    /\ AllSame
    /\ Len(recorded) = MaxRecords
    /\ recorded[1] = U64(1500)
    /\ p50 = U64(2000)

\* C17: whenever count() is 0, get_percentile(p) is 0 for every p in [0, 1]
\* and mean() is 0; and reset() puts 0 into every bucket, the count, the sum
\* and max, and the largest 64-bit value into min.
C17_EmptyAndReset ==
    /\ [](count = 0 =>
             /\ \A k \in Steps : get_percentile(k, PercentileSteps) = U64(0)
             /\ p50 = U64(0) /\ p99 = U64(0)
             /\ p999 = U64(0) /\ p9999 = U64(0)
             /\ mean = U64(0))
    /\ [][(HistIdle /\ HistIdle') =>
             /\ buckets_' = [i \in Buckets |-> 0]
             /\ total_count_' = 0
             /\ sum_' = U64(0)
             /\ min_' = UINT64_MAX
             /\ max_' = U64(0)]_vars

\* The histogram has been reset after records were made.
C17_Witness ==
    /\ HistIdle
    /\ hist_calls > 0
    /\ count = 0
    /\ min = UINT64_MAX

-----------------------------------------------------------------------------
(* Properties of Timestamp *)

\* C21: once initialize() has run, the stored frequency is not zero on any
\* platform, it is 10^9 where rdtscp returns a constant, and no conversion
\* divides by zero.
C21_FrequencyNonZero ==
    ts_calibrated =>
        /\ ~U64IsZero(tsc_frequency_)
        /\ (~ts_has_counter => tsc_frequency_ = U64(NANOS_PER_SECOND))
        /\ ~ts_last.div_by_zero

-----------------------------------------------------------------------------
(* Properties of ThreadUtils::parse_cpu_list *)

\* The pieces of a line between its commas.
Pieces(line) ==
    LET cuts == {0, Len(line) + 1} \cup {i \in 1..Len(line) : line[i] = ","}
    IN  {SubSeq(line, a + 1, b - 1) :
            <<a, b>> \in {c \in cuts \X cuts :
                             /\ c[1] < c[2]
                             /\ \A i \in cuts : ~(c[1] < i /\ i < c[2])}}

\* The pieces of a line from left to right.
PieceSeq(line) ==
    LET commas == {i \in 1..Len(line) : line[i] = ","}
        Before(i) == Cardinality({j \in commas : j < i})
        CutAt(k) == IF k = 0 THEN 0
                    ELSE IF k > Cardinality(commas) THEN Len(line) + 1
                    ELSE CHOOSE i \in commas : Before(i) = k - 1
    IN  [k \in 1..(Cardinality(commas) + 1) |->
            SubSeq(line, CutAt(k - 1) + 1, CutAt(k) - 1)]

\* A decimal numeral: digits only, at least one.
IsNumeral(s) == s # <<>> /\ \A i \in 1..Len(s) : IsDigit(s[i])

\* The numeral without its leading zeros.
RECURSIVE Significant(_)
Significant(s) ==
    IF Len(s) > 1 /\ s[1] = "0" THEN Significant(Tail(s)) ELSE s

IntMaxNumeral == <<"2", "1", "4", "7", "4", "8", "3", "6", "4", "7">>

\* The numeral denotes a value of type int.
DenotesInt(s) ==
    LET t == Significant(s)
    IN  \/ Len(t) < Len(IntMaxNumeral)
        \/ /\ Len(t) = Len(IntMaxNumeral)
           /\ \/ t = IntMaxNumeral
              \/ \E i \in 1..Len(t) :
                    /\ DigitValue(t[i]) < DigitValue(IntMaxNumeral[i])
                    /\ \A j \in 1..(i - 1) : t[j] = IntMaxNumeral[j]

RECURSIVE NumeralValue(_)
NumeralValue(s) ==
    IF s = <<>> THEN 0
    ELSE 10 * NumeralValue(SubSeq(s, 1, Len(s) - 1)) + DigitValue(s[Len(s)])

IsIntNumeral(s) == IsNumeral(s) /\ DenotesInt(s)

\* The integers a token denotes: a for the token a, a, ..., b for the
\* token a-b with a <= b, none for any other token.
Denoted(token) ==
    IF IsIntNumeral(token) THEN <<NumeralValue(token)>>
    ELSE IF \E d \in 1..Len(token) :
               /\ token[d] = "-"
               /\ IsIntNumeral(SubSeq(token, 1, d - 1))
               /\ IsIntNumeral(Substr(token, d + 1))
               /\ NumeralValue(SubSeq(token, 1, d - 1))
                     <= NumeralValue(Substr(token, d + 1))
    THEN LET d == CHOOSE d \in 1..Len(token) : token[d] = "-"
             a == NumeralValue(SubSeq(token, 1, d - 1))
             b == NumeralValue(Substr(token, d + 1))
         IN  [k \in 1..(b - a + 1) |-> a + k - 1]
    ELSE <<>>

RECURSIVE Concat(_)
Concat(seqs) ==
    IF seqs = <<>> THEN <<>> ELSE Head(seqs) \o Concat(Tail(seqs))

\* The integers the tokens of a line denote, in input order.
DenotedBy(line) ==
    LET ps == PieceSeq(line) IN Concat([k \in 1..Len(ps) |-> Denoted(ps[k])])

\* A bound of the token starts with white space or a sign: strtol reads
\* past these, and the statement does not say what such a token denotes.
Decorated(token) ==
    \E i \in 1..Len(token) :
        /\ token[i] \in {" ", "+", "-"}
        /\ i < Len(token)
        /\ IsDigit(token[i + 1]) \/ token[i + 1] \in {" ", "+", "-"}
        /\ i = 1 \/ token[i - 1] = "-"

PlainLine(line) == \A t \in Pieces(line) : ~Decorated(t)

\* C22: parse_cpu_list returns, in input order, the integers every
\* well-formed token of the line denotes (a for a, a..b for a-b with
\* a <= b) and nothing for a malformed token; empty and blank lines give
\* the empty list.
C22_ParseCpuList ==
    (cpu_mode = "on" /\ cpu_pc # "idle" /\ PlainLine(cpu_line)) =>
        /\ cpu_pc = "returned"
        /\ cpus = DenotedBy(cpu_line)

-----------------------------------------------------------------------------
(* Properties of ConfiguredThread *)

\* C23: under any sequence of constructions, join() calls, move
\* constructions, move assignments and destructions, std::terminate() is
\* never called for a joinable handle, every worker that is still running
\* is held by exactly one existing object (so it is joined before its owner
\* is gone), and a worker is running or joined once its constructor has
\* returned, whatever the configuration steps returned.
C23_JoinedBeforeOwnerGone ==
    thr_mode = "on" =>
        /\ ~thr_terminated
        /\ \A w \in Workers :
              worker[w] = "running" =>
                  Cardinality({o \in ThreadObjects :
                                 thr_alive[o] /\ thread_[o] = w}) = 1
        /\ \A o \in ThreadObjects :
              joinable(o) => thr_alive[o] /\ worker[thread_[o]] = "running"

-----------------------------------------------------------------------------
(* Properties of MPMCQueue: the node pool *)

C25_HeadTailShape ==
    (q_mode # "absent" /\ ~q_crashed) =>
        /\ head_ \in Nodes
        /\ head_ \notin SeqRange(QFreeChain)
        /\ tail_ \in SeqRange(QLinkedChain)
        /\ NoDuplicates(QLinkedChain)
        /\ \E i \in DOMAIN QLinkedChain :
              /\ QLinkedChain[i] = tail_
              /\ i >= Len(QLinkedChain) - 1

\* C26: the queue and its free list are lock-free: while the threads inside
\* try_enqueue / try_dequeue keep taking steps, some call returns again and
\* again (or no call is left in progress); in no state do all the calls in
\* progress retry for ever.
C26_LockFree ==
    \/ []<>QueueIdle
    \/ []<><<\E t \in QThreads : QCompletes(t)>>_vars

\* The value the last successful try_dequeue of thread t stored in its
\* output, NoData before the first.
LastTaken(t) ==
    LET mine == {i \in DOMAIN deq_by : deq_by[i] = t}
    IN  IF mine = {} THEN NoData
        ELSE deq_hist[CHOOSE i \in mine : \A j \in mine : j <= i]

\* The threads that only dequeue: their q_item is the output of try_dequeue.
QOnlyDequeue == QDequeuers \ QEnqueuers

\* The values passed to try_enqueue so far.
ItemsOffered ==
    UNION {{ItemOf(p, k) : k \in 1..enq_calls[p]} : p \in Producers}

\* C27 as stated: a try_dequeue that returns false leaves the caller's
\* output as it was before the call: the output is written only by a call
\* that returns true, so between its calls a thread's output holds what its
\* last successful call stored.
C27_OutputUntouched ==
    (q_mode # "absent" /\ ~q_crashed) =>
        \A t \in QOnlyDequeue : q_pc[t] = "idle" => q_item[t] = LastTaken(t)

\* C27, amended: try_dequeue writes the caller's output only at line 172,
\* where it copies the payload of the node after head before it tries to
\* exchange head; no return path writes it.  Between its calls a thread's
\* output holds what its last successful call stored or, after a call that
\* returned false having lost its head exchange, another payload of a pool
\* node: a value that was passed to try_enqueue or the value of a node never
\* written.
C27_OutputWrittenAtRead ==
    /\ []((q_mode # "absent" /\ ~q_crashed) =>
             \A t \in QOnlyDequeue :
                 q_pc[t] = "idle" =>
                     \/ q_item[t] = LastTaken(t)
                     \/ q_item[t] \in ItemsOffered \cup {NoData})
    /\ [][\A t \in QOnlyDequeue :
             q_item'[t] # q_item[t] =>
                 /\ q_pc[t] = "deq_read"
                 /\ q_pc'[t] = "deq_cas"
                 /\ q_item'[t] = node_data[q_next[t]]]_vars

\* A try_dequeue has returned false after overwriting the output of a thread
\* that never dequeued an item.
C27_Witness ==
    /\ q_mode = "consume"
    /\ q_last.op = "deq" /\ ~q_last.ret
    /\ \E t \in QOnlyDequeue :
          /\ q_pc[t] = "idle"
          /\ DeqCount(t) = 0
          /\ q_item[t] = ItemOf(1, 1)

-----------------------------------------------------------------------------
(* CircularBuffer: counters between calls, watermarks *)

\* No call on the ring is in progress.
RingQuiescent == \A t \in RingThreads : ring_pc[t] = "idle"

\* A step of reset().
ResetStep == ring_resets' # ring_resets

\* C29: whenever no call is in progress, size() is the number of successful
\* pushes minus the number of successful pops since construction or the last
\* reset, empty() holds iff the indices are equal iff size() is 0, and full()
\* holds iff (write index + 1) mod N is the read index iff size() is N - 1;
\* both indices always lie in 0 .. N-1, and each successful push or pop
\* advances exactly one index by one modulo N.
C29_QuiescentCounters ==
    /\ [](/\ write_index_ \in 0..(Capacity - 1)
          /\ read_index_ \in 0..(Capacity - 1))
    /\ [](RingQuiescent =>
            /\ sizeOf(write_index_, read_index_) = Len(pushed) - Len(popped)
            /\ emptyOf(read_index_, write_index_)
                  <=> write_index_ = read_index_
            /\ emptyOf(read_index_, write_index_)
                  <=> sizeOf(write_index_, read_index_) = 0
            /\ fullOf(write_index_, read_index_)
                  <=> (write_index_ + 1) % Capacity = read_index_
            /\ fullOf(write_index_, read_index_)
                  <=> sizeOf(write_index_, read_index_) = Capacity - 1)
    /\ [][~ResetStep =>
            /\ Len(pushed') = Len(pushed) + 1 =>
                  /\ write_index_' = (write_index_ + 1) % Capacity
                  /\ read_index_' = read_index_
            /\ Len(popped') = Len(popped) + 1 =>
                  /\ read_index_' = (read_index_ + 1) % Capacity
                  /\ write_index_' = write_index_
            /\ write_index_' # write_index_ =>
                  Len(pushed') = Len(pushed) + 1
            /\ read_index_' # read_index_ =>
                  Len(popped') = Len(popped) + 1]_vars

\* C29 witness: after a reset the indices have wrapped and the ring is full
\* between two calls, the write index behind the read index.
C29_Witness ==
    /\ RingQuiescent
    /\ ring_resets > 0
    /\ write_index_ < read_index_
    /\ fullOf(write_index_, read_index_)
    /\ sizeOf(write_index_, read_index_) = Capacity - 1
    /\ Len(pushed) > Capacity

\* The stored watermarks change.
WatermarkChange ==
    \/ low_watermark_' # low_watermark_
    \/ high_watermark_' # high_watermark_

\* try_push and try_pop succeed or fail by the number of items held alone.
OutcomeByHeld ==
    /\ ring_last.op = "push" =>
          (ring_last.ret = FALSE <=> ring_last.held = Capacity - 1)
    /\ ring_last.op = "pop" =>
          (ring_last.ret = FALSE <=> ring_last.held = 0)

\* A change of the watermarks leaves both indices as they are, and try_push
\* and try_pop succeed or fail as without it.
WatermarksObservational ==
    /\ []OutcomeByHeld
    /\ [][WatermarkChange => UNCHANGED <<write_index_, read_index_>>]_vars

\* C30: after construction and after any calls, set_watermarks(low, high)
\* with any arguments among them, the stored watermarks satisfy
\* 0 <= low <= high <= N; a change of the watermarks leaves both indices as
\* they are, and try_push and try_pop succeed or fail as without it.
C30_WatermarksOrdered ==
    /\ [](/\ 0 <= low_watermark_
          /\ low_watermark_ <= high_watermark_
          /\ high_watermark_ <= Capacity)
    /\ WatermarksObservational

-----------------------------------------------------------------------------
(* LatencyHistogram: invariants across the fields *)

\* Some record() call has finished update_min and update_max since the
\* construction or the last reset.
SomeRecordPastMax ==
    \/ Len(recorded) > 0
    \/ \E t \in HistThreads : hist_pc[t] = "record_sum"

\* C31 as stated: in every reachable state, the states inside record() calls
\* included, total_count > 0 implies min <= max.
C31_MinLeMaxAlways ==
    total_count_ > 0 => U64LessEq(min, max)

\* C31 amended: min <= max in every state reached after some record() call
\* has finished its updates of min and max, the states inside later or
\* concurrent record() calls included, and so in every state with
\* total_count > 0 in which no record() is in progress.
C31_MinLeMaxAfterUpdate ==
    /\ SomeRecordPastMax => U64LessEq(min, max)
    /\ (HistIdle /\ total_count_ > 0) => U64LessEq(min, max)

\* C31 witness: one record() has returned, another one has incremented
\* total_count and is about to lower min below a max it has not yet seen.
C31_Witness ==
    /\ Len(recorded) = 1
    /\ total_count_ = 2
    /\ \E t \in HistThreads :
          /\ hist_pc[t] = "update_min_cas"
          /\ U64Less(latency_ns[t], min)
    /\ U64Less(U64(0), max)


\* x * m for a 64-bit x and a small m, as five limbs (no wrap-around).
WideMulSmall(x, m) ==
    LET p4 == x[4] * m
        p3 == x[3] * m + p4 \div LimbBase
        p2 == x[2] * m + p3 \div LimbBase
        p1 == x[1] * m + p2 \div LimbBase
    IN  <<p1 \div LimbBase, p1 % LimbBase, p2 % LimbBase, p3 % LimbBase,
          p4 % LimbBase>>

\* a <= b for two numbers given as limb tuples of the same length.
LimbsLessEq(a, b) ==
    \/ a = b
    \/ \E k \in 1..Len(a) :
          /\ a[k] < b[k]
          /\ \A j \in 1..(k - 1) : a[j] = b[j]

\* The accumulated sum has not wrapped modulo 2^64.
SumNotWrapped == SumOf(recorded).carry = 0

\* C32: in every reachable state, the states inside concurrent record()
\* calls included, sum <= total_count * max as long as the sum has not
\* wrapped modulo 2^64.
C32_SumBound ==
    SumNotWrapped =>
        LimbsLessEq(<<0>> \o sum_, WideMulSmall(max, total_count_))

\* C32 witness: two records have returned and a third one is in flight,
\* counted in total_count but not yet in the sum; the sum of the two equals
\* twice the maximum.
C32_Witness ==
    /\ SumNotWrapped
    /\ Len(recorded) = 2
    /\ total_count_ = 3
    /\ ~HistIdle
    /\ U64Less(U64(0), max)
    /\ <<0>> \o sum_ = WideMulSmall(max, 2)


\* The bucket counter that a step increments.
BucketHit == CHOOSE b \in Buckets : buckets_'[b] = buckets_[b] + 1

\* Some thread takes the first step of record.
SomeRecordStarts == \E t \in HistThreads : RecordStarts(t)

\* The sample of the record call that starts in this step.
SampleStarted ==
    latency_ns'[CHOOSE t \in HistThreads : RecordStarts(t)]

RECURSIVE BucketSumFrom(_)
BucketSumFrom(i) ==
    IF i >= NUM_BUCKETS THEN 0 ELSE buckets_[i] + BucketSumFrom(i + 1)

BucketSum == BucketSumFrom(0)

KthSmallest(s, k) ==
    CHOOSE x \in SamplesOf(s) :
        /\ Cardinality({i \in 1..Len(s) : U64Less(s[i], x)}) < k
        /\ Cardinality({i \in 1..Len(s) : U64LessEq(s[i], x)}) >= k

\* The percentiles asked for, as pairs <<numerator, denominator>>.
PercentilesAsked ==
    {<<k, PercentileSteps>> : k \in Steps}
        \cup {<<50, 100>>, <<99, 100>>, <<999, 1000>>, <<9999, 10000>>}

\* No record() is in progress, there are samples, none in the top bucket.
BelowTopBucket ==
    /\ HistIdle
    /\ count > 0
    /\ count = Len(recorded)
    /\ \A i \in 1..Len(recorded) : get_bucket(recorded[i]) < NUM_BUCKETS - 1

\* C35: for a quiescent histogram with count() = n > 0 whose samples all
\* fall below the top bucket, and any p with k = floor(n * p) >= 1,
\* get_percentile(p) is at least the k-th smallest sample, is the upper bound
\* of a bucket that holds at least one sample, and is not below min().
C35_PercentileCovers ==
    BelowTopBucket =>
        \A p \in PercentilesAsked :
            LET k == (count * p[1]) \div p[2]
                r == get_percentile(p[1], p[2])
            IN  k >= 1 =>
                    /\ U64LessEq(KthSmallest(recorded, k), r)
                    /\ \E b \in Buckets :
                          /\ buckets_[b] > 0
                          /\ r = get_bucket_upper_bound(b)
                    /\ U64LessEq(min, r)

\* C35 witness: three samples in different buckets; the median is the upper
\* bound of the lowest sample's bucket, above min() and below max().
C35_Witness ==
    /\ BelowTopBucket
    /\ Len(recorded) = 3
    /\ U64Less(min, p50)
    /\ U64Less(p50, max)
    /\ p50 = get_bucket_upper_bound(get_bucket(min))


-----------------------------------------------------------------------------
(* MPMCQueue: size() *)

\* Every call has returned and the constructor completed.
QueueQuiescent == QueueIdle /\ ~q_crashed

\* The walk of size() follows at most MaxNodes links.
SizeWalkBounded == \A t \in QThreads : q_count[t] <= MaxNodes

\* size() never returns more than MaxNodes - 1.
SizeResultBounded == q_size_ret <= MaxNodes - 1

\* Between calls size() is the number of items enqueued and not dequeued.
SizeExactWhenQuiescent == QueueQuiescent => sizeNow = Queued

\* C36: size() returns after following at most M next links, also while
\* enqueues and dequeues recycle nodes; its result never exceeds M - 1; and
\* in a quiescent state it is exactly the number of items enqueued and not
\* yet dequeued.
C36_SizeWalk ==
    /\ SizeWalkBounded
    /\ SizeResultBounded
    /\ SizeExactWhenQuiescent

-----------------------------------------------------------------------------
(* Reference driver: shutdown *)

ProducerExited == drv_pc["producer"] = "exited"

ConsumerExited == drv_pc["consumer"] = "exited"

\* C37: once shutdown has been signalled and both threads have exited (main
\* has joined them), the ring is empty and messages_processed equals
\* messages_received.
C37_DrainedAtExit ==
    drv_pc["main"] = "joined" =>
        /\ emptyOf(read_index_, write_index_)
        /\ messages_processed = messages_received

\* What the two loops leave behind: the events not processed are those still
\* in the ring, at most one.
LeftAtExit ==
    drv_pc["main"] = "joined" =>
        /\ messages_received - messages_processed = RingHeld
        /\ RingHeld <= 1

PushedSinceShutdown == Len(pushed) - at_shutdown[2]

PoppedSinceShutdown == Len(popped) - at_shutdown[3]

\* The producer pushes at most one event after the flag is set.
OnePushAfterShutdown == at_shutdown # <<>> => PushedSinceShutdown <= 1

\* C38: once g_shutdown is set both loops terminate, under fair scheduling of
\* the two threads, and from then on the consumer pops at most the items that
\* were in the ring plus those the producer still pushes.
C38_ShutdownTerminates ==
    /\ g_shutdown ~> (ProducerExited /\ ConsumerExited)
    /\ [](at_shutdown # <<>> =>
             PoppedSinceShutdown <= at_shutdown[1] + PushedSinceShutdown)

\* The flag was set on a full ring with the producer retrying its fourth
\* event; that event was still pushed, the consumer drained all four and both
\* threads have exited.
C38_Witness ==
    /\ ProducerExited
    /\ ConsumerExited
    /\ at_shutdown # <<>>
    /\ at_shutdown[1] = Capacity - 1
    /\ PushedSinceShutdown = 1
    /\ PoppedSinceShutdown = Capacity

-----------------------------------------------------------------------------
(* Timestamp: the conversions against exact arithmetic.  Numbers wider     *)
(* than 64 bits are tuples of 16-bit limbs, most significant first.         *)

\* The carry into limb k of a + b.
RECURSIVE LimbsCarry(_, _, _)
LimbsCarry(a, b, k) ==
    IF k = Len(a) THEN 0
    ELSE (a[k + 1] + b[k + 1] + LimbsCarry(a, b, k + 1)) \div LimbBase

\* a + b for two tuples of the same length (the sum fits).
LimbsAdd(a, b) ==
    [k \in 1..Len(a) |-> (a[k] + b[k] + LimbsCarry(a, b, k)) % LimbBase]

\* The carry into limb k of a * m.
RECURSIVE LimbsMulCarry(_, _, _)
LimbsMulCarry(a, m, k) ==
    IF k = Len(a) THEN 0
    ELSE (a[k + 1] * m + LimbsMulCarry(a, m, k + 1)) \div LimbBase

\* a * m for a small m (the product fits).
LimbsMulSmall(a, m) ==
    [k \in 1..Len(a) |-> (a[k] * m + LimbsMulCarry(a, m, k)) % LimbBase]

\* A 64-bit value as a 128-bit number.
Wide(x) == <<0, 0, 0, 0>> \o x

\* The exact product x * y of two 64-bit values, byte by byte from the most
\* significant byte of y.
RECURSIVE WideMulLoop(_, _, _, _)
WideMulLoop(x, y, k, acc) ==
    IF k < 0 THEN acc
    ELSE WideMulLoop(x, y, k - 1,
                     LimbsAdd(LimbsMulSmall(acc, 256),
                              LimbsMulSmall(Wide(x), U64Byte(y, k))))

WideMul(x, y) == WideMulLoop(x, y, 7, Wide(U64(0)))

\* q = floor(n / d) for a 128-bit n and 64-bit q and d: q * d <= n < q * d + d.
ExactQuotient(q, n, d) ==
    /\ LimbsLessEq(WideMul(q, d), n)
    /\ ~LimbsLessEq(LimbsAdd(WideMul(q, d), Wide(d)), n)

\* The last conversion returned the exact quotient.
LastConversionExact ==
    /\ ts_last.op = "tsc_to_ns" =>
          ExactQuotient(ts_last.ret,
                        WideMul(ts_last.arg, U64(NANOS_PER_SECOND)),
                        tsc_frequency_)
    /\ ts_last.op = "ns_to_tsc" =>
          ExactQuotient(ts_last.ret, WideMul(ts_last.arg, tsc_frequency_),
                        U64(NANOS_PER_SECOND))

\* The product the last conversion formed is below 2^64.
LastProductFits ==
    LET product ==
            IF ts_last.op = "ns_to_tsc"
            THEN WideMul(ts_last.arg, tsc_frequency_)
            ELSE WideMul(ts_last.arg, U64(NANOS_PER_SECOND))
    IN  SubSeq(product, 1, 4) = <<0, 0, 0, 0>>

\* C39: with a calibrated frequency f > 0, tsc_to_ns(c) = floor(c * 10^9 / f)
\* and ns_to_tsc(n) = floor(n * f / 10^9) for every 64-bit argument.
C39_ConversionsExact ==
    ~U64IsZero(tsc_frequency_) => LastConversionExact

\* The conversions are exact whenever the 64-bit product has not wrapped.
ExactWhenProductFits ==
    (~U64IsZero(tsc_frequency_) /\ LastProductFits) => LastConversionExact

-----------------------------------------------------------------------------
(* ThreadUtils: affinity and priority requests *)

PinOps == {"pin_to_cpu", "pin_current_thread_to_cpu"}

RealtimeOps == {"set_realtime_priority", "set_current_thread_realtime"}

\* The argument of the call just made is outside the accepted range.
RequestOutOfRange ==
    \/ /\ sched_last'.op \in PinOps
       /\ sched_last'.arg < 0 \/ sched_last'.arg >= num_cpus
    \/ /\ sched_last'.op \in RealtimeOps
       /\ sched_last'.arg < 1 \/ sched_last'.arg > 99

\* C40: a pin request with cpu_id < 0 or cpu_id >= the online CPU count and a
\* priority request outside 1 .. 99 return false without calling the
\* operating system and without changing an attribute of any thread; a call
\* returns true only for an in-range request that the operating system
\* accepted.
C40_RangeChecked ==
    [][/\ RequestOutOfRange =>
             /\ ~sched_last'.ret
             /\ ~sched_last'.os_called
             /\ UNCHANGED <<cpu_affinity, sched_param>>
       /\ sched_last'.ret =>
             /\ ~RequestOutOfRange
             /\ sched_last'.os_called
             /\ sched_last'.rc = 0]_vars

\* C40 witness: the thread was pinned to CPU 0 and made real-time by accepted
\* requests; a later pin_to_cpu with cpu_id equal to the online CPU count
\* was refused and changed neither.
C40_Witness ==
    /\ sched_last.op = "pin_to_cpu"
    /\ sched_last.arg = num_cpus
    /\ ~sched_last.ret
    /\ ~sched_last.os_called
    /\ num_cpus = MaxCpus
    /\ cpu_affinity["thread"] = {0}
    /\ sched_param["thread"] = <<"SCHED_FIFO", 99>>

====
